---- MODULE Spec2Model ----
(***************************************************************************)
(* State-machine model of the retrieval-and-correction pipeline of the    *)
(* SEBI RAG bot: SEBIRetriever (src/retriever.py) and SEBIRAGChain        *)
(* (src/rag_chain.py).                                                     *)
(*                                                                         *)
(* Texts on which the code does substring tests are sequences of          *)
(* one-character strings.  Every external call (language model, vector    *)
(* index) is a nondeterministic choice over a named set of outcomes, a    *)
(* raised exception included.                                             *)
(***************************************************************************)
EXTENDS Integers, Sequences, FiniteSets, TLC

\* ------------------------------------------------------------------------
\* Program constants (src/config.py)
\* ------------------------------------------------------------------------
TOP_K == 5
MULTI_QUERY_COUNT == 3
RRF_K == 60

\* ------------------------------------------------------------------------
\* Bounds of the model
\* ------------------------------------------------------------------------
\* number of child chunks in the indexed corpus
NumChunks == 3
\* longest hit list the index stub returns in the pipeline specification
MaxHits == 2
\* number of ranked lists and their longest length in the fusion specification
FusionLists == 3
FusionHits == 2
\* expanded queries of one search loop applied on its own
LoopQueries == 2
\* lines of a model response in the query-expansion specification
MaxLines == 5
\* phrases a question is put together from in the filter specification
MaxPhrases == 2
\* circulars and distinct dates in the versioning specification
MaxDocs == 3
MaxDate == 2
\* chunks of a relevant set in the sources specification
MaxRelevant == 3
\* fused children of one retrieve call in the parent-block specification
MaxFused == 4
\* words of a model response in the grounding-verdict specification
MaxVerdictWords == 2
\* longest document text in the chunking specification, and the chunk sizes
\* and overlaps of the two splitters, in characters
MaxText == 5
ParentSize == 4
ParentOverlap == 1
ChildSize == 2
ChildOverlap == 1
\* documents of one build in the chunking of all documents
BuildDocs == 2

\* ------------------------------------------------------------------------
\* Generic helpers
\* ------------------------------------------------------------------------
Range(s) == {s[i] : i \in 1..Len(s)}

Min(a, b) == IF a <= b THEN a ELSE b

\* s[:n] of Python
Take(s, n) == SubSeq(s, 1, Min(n, Len(s)))

IsPrefixAt(sub, s, i) == /\ i + Len(sub) - 1 <= Len(s)
                         /\ \A j \in 1..Len(sub) : s[i + j - 1] = sub[j]

\* Python's `sub in s` on strings
Contains(sub, s) == \E i \in 1..(Len(s) + 1) : IsPrefixAt(sub, s, i)

UpperLetters == <<"A","B","C","D","E","F","G","H","I","J","K","L","M",
                  "N","O","P","Q","R","S","T","U","V","W","X","Y","Z">>
LowerLetters == <<"a","b","c","d","e","f","g","h","i","j","k","l","m",
                  "n","o","p","q","r","s","t","u","v","w","x","y","z">>

LowerChar(c) == IF \E i \in 1..Len(UpperLetters) : UpperLetters[i] = c
                THEN LowerLetters[CHOOSE i \in 1..Len(UpperLetters) : UpperLetters[i] = c]
                ELSE c

\* str.lower()
Lower(s) == [i \in 1..Len(s) |-> LowerChar(s[i])]

IsSpace(c) == c \in {" ", "\t", "\n"}

RECURSIVE LStrip(_)
LStrip(s) == IF s # <<>> /\ IsSpace(Head(s)) THEN LStrip(Tail(s)) ELSE s

RECURSIVE RStrip(_)
RStrip(s) == IF s # <<>> /\ IsSpace(s[Len(s)])
             THEN RStrip(SubSeq(s, 1, Len(s) - 1)) ELSE s

\* str.strip()
Strip(s) == RStrip(LStrip(s))

\* the elements of s that satisfy Keep, in order
RECURSIVE SelectNonEmpty(_)
SelectNonEmpty(lines) ==
    IF lines = <<>> THEN <<>>
    ELSE IF Head(lines) # <<>>
         THEN <<Head(lines)>> \o SelectNonEmpty(Tail(lines))
         ELSE SelectNonEmpty(Tail(lines))

\* sep.join(parts), a text being a sequence of blocks
RECURSIVE Join(_, _)
Join(parts, sep) ==
    IF parts = <<>> THEN <<>>
    ELSE IF Len(parts) = 1 THEN <<parts[1]>>
    ELSE <<parts[1], sep>> \o Join(Tail(parts), sep)

\* ------------------------------------------------------------------------
\* The indexed corpus (built by src/chunker.py, src/build_index.py)
\* ------------------------------------------------------------------------
\* a child chunk is identified by its child_id
Chunks == 1..NumChunks

\* metadata["parent_id"] of a child: the first two children share a parent
ParentOf(c) == IF c <= 2 THEN 1 ELSE c - 1

\* metadata["source"] of a child: the first two parents belong to one file
SourceOf(c) == IF ParentOf(c) <= 2 THEN 1 ELSE ParentOf(c) - 1

Parents == {ParentOf(c) : c \in Chunks}

\* the persisted parent store: parent_id -> parent text
ParentText(p) == [kind |-> "parent", id |-> p]
BuiltParentStore == [p \in Parents |-> ParentText(p)]

\* the persisted circular index: one entry per source file
BuiltCircularIndex == {[filename |-> SourceOf(c)] : c \in Chunks}

\* "\n\n---\n\n" between the blocks of a context string
Sep == [kind |-> "sep", id |-> 0]
\* "\n\n" between child and parent context in the grounding context
Gap == [kind |-> "gap", id |-> 0]
\* the formatted "[Source: ...]\n<content>" block of one child
ChildBlock(c) == [kind |-> "child", id |-> c]

\* ------------------------------------------------------------------------
\* Outcomes of the external calls
\* ------------------------------------------------------------------------
\* the hit list of `len` chunks that starts at chunk `start` and follows the
\* cyclic order of the universe 1..n: every list has distinct elements
Window(start, len, n) == [i \in 1..len |-> ((start + i - 2) % n) + 1]

WindowLists(n, maxLen) ==
    {Window(s, l, n) : s \in 1..n, l \in 0..Min(maxLen, n)}

\* similarity_search returns at most k = TOP_K hits, most similar first
HitLists == WindowLists(NumChunks, Min(MaxHits, TOP_K))

IndexErr == [st |-> "err", docs |-> <<>>]
NoCall == [st |-> "nocall", docs |-> <<>>]
IndexOutcomes == {[st |-> "ok", docs |-> h] : h \in HitLists} \cup {IndexErr}

\* ------------------------------------------------------------------------
\* SEBIRetriever.build_metadata_filter
\* ------------------------------------------------------------------------
\* audience_map, in the insertion order the loop scans it
audience_map == <<
    [kw |-> <<"s","t","o","c","k"," ","b","r","o","k","e","r">>,
     aud |-> "Stock Brokers"],
    [kw |-> <<"m","u","t","u","a","l"," ","f","u","n","d">>,
     aud |-> "Mutual Funds"],
    [kw |-> <<"d","e","p","o","s","i","t","o","r">>,
     aud |-> "Depositories"],
    [kw |-> <<"c","r","e","d","i","t"," ","r","a","t","i","n","g">>,
     aud |-> "Credit Rating Agencies (CRAs)"],
    [kw |-> <<"p","o","r","t","f","o","l","i","o"," ","m","a","n","a","g","e","r">>,
     aud |-> "Portfolio Managers"],
    [kw |-> <<"r","e","s","e","a","r","c","h"," ","a","n","a","l","y","s","t">>,
     aud |-> "Research Analysts"],
    [kw |-> <<"i","n","v","e","s","t","m","e","n","t"," ","a","d","v","i","s","e","r">>,
     aud |-> "Investment Advisers"],
    [kw |-> <<"r","e","g","i","s","t","r","a","r">>,
     aud |-> "Registrars to an Issue and Share Transfer Agents"],
    [kw |-> <<"d","e","b","e","n","t","u","r","e"," ","t","r","u","s","t","e","e">>,
     aud |-> "Debenture Trustees (DTs)"],
    [kw |-> <<"s","t","o","c","k"," ","e","x","c","h","a","n","g","e">>,
     aud |-> "Stock Exchanges and Clearing Corporations"],
    [kw |-> <<"c","l","e","a","r","i","n","g"," ","c","o","r","p","o","r","a","t","i","o","n">>,
     aud |-> "Stock Exchanges and Clearing Corporations"],
    [kw |-> <<"i","n","v","i","t">>,
     aud |-> "Infrastructure Investment Trusts (InvITs)"],
    [kw |-> <<"r","e","i","t">>,
     aud |-> "Real Estate Investment Trusts (REITs)"],
    [kw |-> <<"e","s","g">>,
     aud |-> "ESG Rating Providers (ERPs)"],
    [kw |-> <<"s","o","c","i","a","l"," ","s","t","o","c","k">>,
     aud |-> "Social Stock Exchange"],
    [kw |-> <<"l","i","s","t","i","n","g"," ","o","b","l","i","g","a","t","i","o","n">>,
     aud |-> "Listed Entities"],
    [kw |-> <<"i","s","s","u","e"," ","o","f"," ","c","a","p","i","t","a","l">>,
     aud |-> "Market Participants"] >>

RecencyWords == <<
    <<"l","a","t","e","s","t">>,
    <<"c","u","r","r","e","n","t">>,
    <<"m","o","s","t"," ","r","e","c","e","n","t">>,
    <<"n","e","w","e","s","t">> >>

CurrencyWords == <<
    <<"a","c","t","i","v","e">>,
    <<"i","n"," ","f","o","r","c","e">>,
    <<"i","n"," ","e","f","f","e","c","t">> >>

AnyWordIn(words, q) == \E i \in 1..Len(words) : Contains(words[i], q)

\* mutant: the loop without its break, one clause per keyword found
AudienceClausesAll(q) ==
    LET found == SelectSeq(audience_map, LAMBDA e : Contains(e.kw, q))
    IN [i \in 1..Len(found) |-> [field |-> "audience", value |-> found[i].aud]]

\* the `for kw, aud in audience_map.items(): ... break` loop
AudienceClauses(q) ==
    IF \E i \in 1..Len(audience_map) : Contains(audience_map[i].kw, q)
    THEN LET first == CHOOSE i \in 1..Len(audience_map) :
                        /\ Contains(audience_map[i].kw, q)
                        /\ \A j \in 1..(i - 1) : ~Contains(audience_map[j].kw, q)
         IN <<[field |-> "audience", value |-> audience_map[first].aud]>>
    ELSE <<>>

\* mutant: the currency words are not looked for
FilterClausesNoCurrency(q) ==
    AudienceClauses(q)
    \o (IF AnyWordIn(RecencyWords, q)
        THEN <<[field |-> "is_latest", value |-> "True"]>> ELSE <<>>)

FilterClauses(q) ==
    AudienceClauses(q)
    \o (IF AnyWordIn(RecencyWords, q)
        THEN <<[field |-> "is_latest", value |-> "True"]>> ELSE <<>>)
    \o (IF AnyWordIn(CurrencyWords, q)
        THEN <<[field |-> "status", value |-> "ACTIVE"]>> ELSE <<>>)

\* None, the bare clause, or {"$and": clauses}
build_metadata_filter(question) ==
    LET clauses == FilterClauses(Lower(question))
    IN IF clauses = <<>> THEN [op |-> "none", clauses |-> <<>>]
       ELSE IF Len(clauses) = 1 THEN [op |-> "clause", clauses |-> clauses]
       ELSE [op |-> "and", clauses |-> clauses]

\* truth value of `meta_filter` in `if meta_filter:`
FilterActive(mf) == mf.op # "none"

\* ------------------------------------------------------------------------
\* SEBIRetriever.generate_multi_queries
\* ------------------------------------------------------------------------
\* the parser lambda: the stripped non-empty lines of the response
ParseLines(lines) == SelectNonEmpty([i \in 1..Len(lines) |-> Strip(lines[i])])

\* mutant: every parsed line is kept, the slice is missing
generate_multi_queriesUncut(question, outcome) ==
    IF outcome.st = "ok"
    THEN <<question>> \o ParseLines(outcome.lines)
    ELSE <<question>>

\* an outcome of the model call is [st, lines]: the response split at "\n"
generate_multi_queries(question, outcome) ==
    IF outcome.st = "ok"
    THEN <<question>> \o Take(ParseLines(outcome.lines), MULTI_QUERY_COUNT)
    ELSE <<question>>

\* ------------------------------------------------------------------------
\* The per-query search of SEBIRetriever.retrieve
\* ------------------------------------------------------------------------
\* o1, o2, o3 are the outcomes of the first, second and third index call made
\* for one expanded query; NoCall stands for a call that is not made
NeedsSecond(mf, o1) ==
    \/ o1.st = "err"
    \/ FilterActive(mf) /\ o1.st = "ok" /\ Len(o1.docs) < 2

NeedsThird(mf, o1, o2) ==
    FilterActive(mf) /\ o1.st = "ok" /\ Len(o1.docs) < 2 /\ o2.st = "err"

\* mutant: the fallback fires below 1 hit instead of below 2
search_oneBelowOne(mf, o1, o2, o3) ==
    IF o1.st = "err"
    THEN IF o2.st = "ok" THEN <<o2.docs>> ELSE <<>>
    ELSE IF FilterActive(mf) /\ Len(o1.docs) < 1
         THEN IF o2.st = "ok" THEN <<o2.docs>>
              ELSE IF o3.st = "ok" THEN <<o3.docs>> ELSE <<>>
         ELSE <<o1.docs>>

\* the lists (none or one) that one loop iteration appends to all_results
search_one(mf, o1, o2, o3) ==
    IF o1.st = "err"
    THEN \* except branch: one unfiltered attempt
         IF o2.st = "ok" THEN <<o2.docs>> ELSE <<>>
    ELSE IF FilterActive(mf) /\ Len(o1.docs) < 2
         THEN \* fall back to unfiltered if too few
              IF o2.st = "ok" THEN <<o2.docs>>
              ELSE IF o3.st = "ok" THEN <<o3.docs>> ELSE <<>>
         ELSE <<o1.docs>>

\* ------------------------------------------------------------------------
\* SEBIRetriever.reciprocal_rank_fusion
\* ------------------------------------------------------------------------
\* dumps(doc) / loads(key): the canonical serialization a chunk is keyed by
dumps(c) == <<"Document", c>>
loads(key) == key[2]

RECURSIVE Gcd(_, _)
Gcd(a, b) == IF b = 0 THEN a ELSE Gcd(b, a % b)

RECURSIVE LcmRange(_, _)
LcmRange(lo, hi) ==
    IF lo > hi THEN 1
    ELSE LET rest == LcmRange(lo + 1, hi) IN (lo \div Gcd(lo, rest)) * rest

\* 1.0 / (rank + k) as an exact integer: scores are kept as multiples of
\* 1/RRFScale, the common denominator of the ranks 0 .. TOP_K - 1
RRFScale == LcmRange(RRF_K, RRF_K + TOP_K - 1)
\* mutant: the rank counted from 1
RRFTermOneBased(rank, k) == RRFScale \div (rank + 1 + k)

RRFTerm(rank, k) == RRFScale \div (rank + k)

\* mutant: a chunk met again keeps the score of its first occurrence
RECURSIVE FuseListKeepFirst(_, _, _, _)
FuseListKeepFirst(fused, docs, rank, k) ==
    IF rank >= Len(docs) THEN fused
    ELSE LET key == dumps(docs[rank + 1])
             keys == fused[1]
             score == fused[2]
             isNew == key \notin Range(keys)
             keys2 == IF isNew THEN Append(keys, key) ELSE keys
             score2 == [x \in Range(keys2) |->
                          IF x = key /\ isNew THEN RRFTerm(rank, k) ELSE score[x]]
         IN FuseListKeepFirst(<<keys2, score2>>, docs, rank + 1, k)

\* one pass of `for rank, doc in enumerate(docs)`: fused is <<keys, score>>,
\* keys the dict's insertion order, score the dict itself
RECURSIVE FuseList(_, _, _, _)
FuseList(fused, docs, rank, k) ==
    IF rank >= Len(docs) THEN fused
    ELSE LET key == dumps(docs[rank + 1])
             keys == fused[1]
             score == fused[2]
             isNew == key \notin Range(keys)
             keys2 == IF isNew THEN Append(keys, key) ELSE keys
             base == IF isNew THEN 0 ELSE score[key]
             score2 == [x \in Range(keys2) |->
                          IF x = key THEN base + RRFTerm(rank, k) ELSE score[x]]
         IN FuseList(<<keys2, score2>>, docs, rank + 1, k)

RECURSIVE FuseAll(_, _, _)
FuseAll(fused, result_lists, k) ==
    IF result_lists = <<>> THEN fused
    ELSE FuseAll(FuseList(fused, Head(result_lists), 0, k), Tail(result_lists), k)

\* mutant: an unstable sort, x goes in front of the elements of equal score
RECURSIVE InsertDescUnstable(_, _, _)
InsertDescUnstable(sorted, x, score) ==
    IF sorted = <<>> THEN <<x>>
    ELSE IF score[Head(sorted)] > score[x]
         THEN <<Head(sorted)>> \o InsertDescUnstable(Tail(sorted), x, score)
         ELSE <<x>> \o sorted

\* insert x behind every element whose score is at least its own
RECURSIVE InsertDesc(_, _, _)
InsertDesc(sorted, x, score) ==
    IF sorted = <<>> THEN <<x>>
    ELSE IF score[Head(sorted)] >= score[x]
         THEN <<Head(sorted)>> \o InsertDesc(Tail(sorted), x, score)
         ELSE <<x>> \o sorted

\* sorted(fused.items(), key=score, reverse=True): stable
RECURSIVE SortedDesc(_, _)
SortedDesc(keys, score) ==
    IF keys = <<>> THEN <<>>
    ELSE InsertDesc(SortedDesc(SubSeq(keys, 1, Len(keys) - 1), score),
                    keys[Len(keys)], score)

reciprocal_rank_fusion(result_lists, k) ==
    LET fused == FuseAll(<<<<>>, <<>>>>, result_lists, k)
        reranked == SortedDesc(fused[1], fused[2])
    IN [i \in 1..Len(reranked) |-> loads(reranked[i])]

\* ------------------------------------------------------------------------
\* SEBIRetriever.get_parent_context / get_definitions_context
\* ------------------------------------------------------------------------
\* mutant: the parents seen are not recorded, a parent is added per child
RECURSIVE ParentLoopNoSeen(_, _, _, _)
ParentLoopNoSeen(child_docs, seen, parents, store) ==
    IF child_docs = <<>> THEN parents
    ELSE LET pid == ParentOf(Head(child_docs))
         IN ParentLoopNoSeen(Tail(child_docs), seen,
                             IF pid \in DOMAIN store
                             THEN Append(parents, store[pid]) ELSE parents,
                             store)

RECURSIVE ParentLoop(_, _, _, _)
ParentLoop(child_docs, seen, parents, store) ==
    IF child_docs = <<>> THEN parents
    ELSE LET pid == ParentOf(Head(child_docs))
         IN IF pid \notin seen
            THEN ParentLoop(Tail(child_docs), seen \cup {pid},
                            IF pid \in DOMAIN store
                            THEN Append(parents, store[pid]) ELSE parents,
                            store)
            ELSE ParentLoop(Tail(child_docs), seen, parents, store)

get_parent_context(child_docs, store) == ParentLoop(child_docs, {}, <<>>, store)

\* outcomes of the glossary search (k = 3): an error, or the entries found
GlossaryOutcomes == {[st |-> "err", docs |-> <<>>],
                     [st |-> "ok", docs |-> <<>>],
                     [st |-> "ok", docs |-> <<1>>]}

get_definitions_context(outcome) ==
    IF outcome.st = "ok" /\ outcome.docs # <<>>
    THEN <<[kind |-> "definitions_header", id |-> 0]>>
         \o [i \in 1..Len(outcome.docs) |-> [kind |-> "definition", id |-> outcome.docs[i]]]
    ELSE <<>>

\* ------------------------------------------------------------------------
\* SEBIRetriever.retrieve, steps 4 to 7 and the returned dict
\* ------------------------------------------------------------------------
\* mutant: without the guard for no result lists, a default chunk is returned
FusedDocsNeverEmpty(all_results) ==
    IF all_results # <<>>
    THEN Take(reciprocal_rank_fusion(all_results, RRF_K), TOP_K)
    ELSE <<1>>

FusedDocs(all_results) ==
    IF all_results # <<>>
    THEN Take(reciprocal_rank_fusion(all_results, RRF_K), TOP_K)
    ELSE <<>>

RetrieveResult(queries, meta_filter, all_results, store, glossary) ==
    LET fused_docs == FusedDocs(all_results)
        parent_contexts == get_parent_context(fused_docs, store)
    IN [child_docs |-> fused_docs,
        child_context |->
            Join([i \in 1..Len(fused_docs) |-> ChildBlock(fused_docs[i])], Sep),
        parent_context |-> Join(Take(parent_contexts, 3), Sep),
        definitions |-> get_definitions_context(glossary),
        queries_used |-> queries,
        metadata_filter |-> meta_filter]

\* the value of `retry` before the retry pass has run
NoRetrieval == [child_docs |-> <<>>, child_context |-> <<>>,
                parent_context |-> <<>>, definitions |-> <<>>,
                queries_used |-> <<>>,
                metadata_filter |-> [op |-> "none", clauses |-> <<>>]]

\* ------------------------------------------------------------------------
\* SEBIRAGChain.grade_relevance
\* ------------------------------------------------------------------------
RelevantWord == <<"r","e","l","e","v","a","n","t">>
NotRelevantWord == <<"n","o","t","_","r","e","l","e","v","a","n","t">>

\* the parse of one grading response: result.strip().lower(), then the test
IsRelevantText(response) ==
    LET text == Lower(Strip(response))
    IN ~Contains(NotRelevantWord, text) /\ Contains(RelevantWord, text)

\* mutant: a failed grading call drops the chunk
GradeStepFailClosed(relevant, doc, outcome) ==
    IF outcome.st = "ok"
    THEN IF IsRelevantText(outcome.text) THEN Append(relevant, doc) ELSE relevant
    ELSE relevant

\* one iteration of `for doc in docs`; outcome is [st, text] of the model call
GradeStep(relevant, doc, outcome) ==
    IF outcome.st = "ok"
    THEN IF IsRelevantText(outcome.text) THEN Append(relevant, doc) ELSE relevant
    ELSE Append(relevant, doc)

\* mutant: `return relevant`
NeverEmptyNoFallback(relevant, docs) == relevant

\* `return relevant if relevant else docs`
NeverEmpty(relevant, docs) == IF relevant # <<>> THEN relevant ELSE docs

RECURSIVE GradeLoop(_, _, _, _)
GradeLoop(relevant, docs, outcomes, i) ==
    IF i > Len(docs) THEN relevant
    ELSE GradeLoop(GradeStep(relevant, docs[i], outcomes[i]), docs, outcomes, i + 1)

\* outcomes[i] is the outcome of the grading call made for docs[i]
grade_relevance(docs, outcomes) ==
    NeverEmpty(GradeLoop(<<>>, docs, outcomes, 1), docs)

GradeErr == [st |-> "err", text |-> <<>>]
GradeResponses == {<<"r","e","l","e","v","a","n","t">>,
                   <<"n","o","t","_","r","e","l","e","v","a","n","t">>,
                   <<"R","e","l","e","v","a","n","t">>,
                   <<"n","o">>}
GradeOutcomes == {[st |-> "ok", text |-> r] : r \in GradeResponses} \cup {GradeErr}

\* ------------------------------------------------------------------------
\* SEBIRAGChain.check_hallucination and the confidence table of query
\* ------------------------------------------------------------------------
GroundedWord == <<"g","r","o","u","n","d","e","d">>
NotGroundedWord == <<"n","o","t","_","g","r","o","u","n","d","e","d">>
PartialWord == <<"p","a","r","t","i","a","l">>

\* mutant: grounded is looked for before not_grounded
check_hallucinationGroundedFirst(outcome) ==
    IF outcome.st = "ok"
    THEN LET text == Lower(Strip(outcome.text))
         IN IF Contains(GroundedWord, text) THEN "grounded"
            ELSE IF Contains(NotGroundedWord, text) THEN "not_grounded"
            ELSE IF Contains(PartialWord, text) THEN "partial"
            ELSE "unknown"
    ELSE "unknown"

check_hallucination(outcome) ==
    IF outcome.st = "ok"
    THEN LET text == Lower(Strip(outcome.text))
         IN IF Contains(NotGroundedWord, text) THEN "not_grounded"
            ELSE IF Contains(PartialWord, text) THEN "partial"
            ELSE IF Contains(GroundedWord, text) THEN "grounded"
            ELSE "unknown"
    ELSE "unknown"

\* mutant: an unknown verdict is reported as low confidence
ConfidenceUnknownLow(hall) ==
    CASE hall = "grounded" -> "high"
      [] hall = "partial" -> "medium"
      [] hall = "not_grounded" -> "low"
      [] OTHER -> "low"

\* {...}.get(hall, "medium")
Confidence(hall) ==
    CASE hall = "grounded" -> "high"
      [] hall = "partial" -> "medium"
      [] hall = "unknown" -> "medium"
      [] hall = "not_grounded" -> "low"
      [] OTHER -> "medium"

GroundErr == [st |-> "err", text |-> <<>>]

\* the grounding call as made: the answer it was given and its outcome
GroundCall(answer, outcome) ==
    [st |-> outcome.st, text |-> outcome.text, answer |-> answer]
NoGroundCall == [st |-> "nocall", text |-> <<>>, answer |-> <<>>]
GroundResponses == {<<"g","r","o","u","n","d","e","d">>,
                    <<"n","o","t","_","g","r","o","u","n","d","e","d">>,
                    <<"p","a","r","t","i","a","l">>,
                    <<"P","a","r","t","i","a","l","l","y"," ","g","r","o","u","n","d","e","d">>,
                    <<"u","n","s","u","r","e">>}
GroundOutcomes == {[st |-> "ok", text |-> r] : r \in GroundResponses} \cup {GroundErr}

\* the fixed caveat appended to an answer that is not grounded
CaveatSuffix == <<"\n\n(!) *Note: Parts of this answer may not be directly supported by the source documents. Please verify against the original SEBI circulars.*">>

\* mutant: the caveat is appended unless the verdict is grounded
FinalAnswerUnlessGrounded(answer, hall) ==
    IF hall # "grounded" THEN answer \o CaveatSuffix ELSE answer

\* `if hall == "not_grounded": answer += ...`
FinalAnswer(answer, hall) ==
    IF hall = "not_grounded" THEN answer \o CaveatSuffix ELSE answer

\* ------------------------------------------------------------------------
\* SEBIRAGChain.generate_answer
\* ------------------------------------------------------------------------
\* the variables the prompt is invoked with
GenerationInput(question, retrieval_result) ==
    [question |-> question,
     child_context |-> IF retrieval_result.child_context # <<>>
                       THEN retrieval_result.child_context
                       ELSE <<[kind |-> "(no child context)", id |-> 0]>>,
     parent_context |-> IF retrieval_result.parent_context # <<>>
                        THEN retrieval_result.parent_context
                        ELSE <<[kind |-> "(no parent context)", id |-> 0]>>,
     definitions |-> retrieval_result.definitions]

NoInput == [question |-> <<>>, child_context |-> <<>>,
            parent_context |-> <<>>, definitions |-> <<>>]

GenerateErr == [st |-> "err", text |-> <<>>]
GeneratedTexts == {<<"The fee is prescribed by the circular.">>,
                   <<"The fee is prescribed by the circular.">> \o CaveatSuffix}
GenerateOutcomes == {[st |-> "ok", text |-> a] : a \in GeneratedTexts}
                    \cup {GenerateErr}

\* ------------------------------------------------------------------------
\* The result dicts of SEBIRAGChain.query
\* ------------------------------------------------------------------------
\* one source record: the file, and the chunk whose section, date, audience,
\* status and pages it carries
SourceRecord(c) == [file |-> SourceOf(c), chunk |-> c]

\* mutant: no record of the sources seen, one record per chunk
RECURSIVE SourcesLoopNoDedup(_, _, _)
SourcesLoopNoDedup(docs, seen_src, sources) ==
    IF docs = <<>> THEN sources
    ELSE SourcesLoopNoDedup(Tail(docs), seen_src,
                            Append(sources, SourceRecord(Head(docs))))

RECURSIVE SourcesLoop(_, _, _)
SourcesLoop(docs, seen_src, sources) ==
    IF docs = <<>> THEN sources
    ELSE LET src == SourceOf(Head(docs))
         IN IF src \notin seen_src
            THEN SourcesLoop(Tail(docs), seen_src \cup {src},
                             Append(sources, SourceRecord(Head(docs))))
            ELSE SourcesLoop(Tail(docs), seen_src, sources)

Sources(relevant_docs) == SourcesLoop(relevant_docs, {}, <<>>)

NotFoundAnswer == <<"I could not find relevant information in the SEBI regulatory documents for your question. Please try rephrasing or ask about a specific regulation.">>

\* mutant: the early return reports low confidence
NoResultsDictLow(retrieval) ==
    [answer |-> NotFoundAnswer,
     sources |-> <<>>,
     confidence |-> "low",
     hallucination_check |-> "n/a",
     queries_used |-> retrieval.queries_used,
     num_relevant |-> 0,
     num_retrieved |-> 0]

NoResultsDict(retrieval) ==
    [answer |-> NotFoundAnswer,
     sources |-> <<>>,
     confidence |-> "no_results",
     hallucination_check |-> "n/a",
     queries_used |-> retrieval.queries_used,
     num_relevant |-> 0,
     num_retrieved |-> 0]

ResultDict(answer, hall, relevant_docs, retrieval) ==
    [answer |-> FinalAnswer(answer, hall),
     sources |-> Sources(relevant_docs),
     confidence |-> Confidence(hall),
     hallucination_check |-> hall,
     queries_used |-> retrieval.queries_used,
     num_relevant |-> Len(relevant_docs),
     num_retrieved |-> Len(retrieval.child_docs)]

\* the value of `result` while query has not returned
NoResult == [answer |-> <<>>, sources |-> <<>>, confidence |-> "",
             hallucination_check |-> "", queries_used |-> <<>>,
             num_relevant |-> 0, num_retrieved |-> 0]

\* mutant: the merge without the test of seen_ids
RECURSIVE MergeExtraNoSeen(_, _, _)
MergeExtraNoSeen(relevant_docs, extra, seen_ids) ==
    IF extra = <<>> THEN relevant_docs
    ELSE MergeExtraNoSeen(Append(relevant_docs, Head(extra)), Tail(extra), seen_ids)

\* the merge of the retry pass: `for doc in extra: if child_id not in seen_ids`
RECURSIVE MergeExtra(_, _, _)
MergeExtra(relevant_docs, extra, seen_ids) ==
    IF extra = <<>> THEN relevant_docs
    ELSE MergeExtra(IF Head(extra) \notin seen_ids
                    THEN Append(relevant_docs, Head(extra)) ELSE relevant_docs,
                    Tail(extra), seen_ids)

\* mutant: the child context of the retry takes the place of the initial one
MergeContextsRetryOnly(retrieval, retry) ==
    [retrieval EXCEPT
        !.child_context = retry.child_context,
        !.parent_context = retrieval.parent_context \o <<Sep>> \o retry.parent_context]

\* retrieval["child_context"] += sep + retry["child_context"], and the parents
MergeContexts(retrieval, retry) ==
    [retrieval EXCEPT
        !.child_context = retrieval.child_context \o <<Sep>> \o retry.child_context,
        !.parent_context = retrieval.parent_context \o <<Sep>> \o retry.parent_context]

\* mutant: the retry does not look at the filter
ShouldRetryIgnoringFilter(relevant_docs, retrieval) == Len(relevant_docs) < 2

\* `len(relevant_docs) < 2 and retrieval.get("metadata_filter")`
ShouldRetry(relevant_docs, retrieval) ==
    Len(relevant_docs) < 2 /\ FilterActive(retrieval.metadata_filter)

\* ------------------------------------------------------------------------
\* Inputs of the pipeline specification
\* ------------------------------------------------------------------------
\* no keyword / an audience keyword in upper case / audience and recency
Questions == {<<"W","h","a","t"," ","a","r","e"," ","t","h","e"," ","f","e","e","s","?">>,
              <<"R","E","I","T"," ","r","u","l","e","s">>,
              <<"l","a","t","e","s","t"," ","m","u","t","u","a","l"," ","f","u","n","d"," ","n","o","r","m","s">>}

\* the outcomes the pipeline specification draws for the model calls of query:
\* one per way the code can go on
QueryGradeOutcomes == {GradeErr,
                       [st |-> "ok", text |-> RelevantWord],
                       [st |-> "ok", text |-> NotRelevantWord]}

QueryGroundOutcomes == {GroundErr,
                        [st |-> "ok", text |-> GroundedWord],
                        [st |-> "ok", text |-> NotGroundedWord],
                        [st |-> "ok", text |-> PartialWord]}

QueryGenerateOutcomes == {GenerateErr,
                          [st |-> "ok", text |-> <<"The fee is prescribed by the circular.">>]}

ExpansionErr == [st |-> "err", lines |-> <<>>]
ExpansionOutcomes ==
    {ExpansionErr,
     [st |-> "ok", lines |-> << <<" ", " ">> >>],
     [st |-> "ok", lines |-> << <<" ","m","a","r","g","i","n"," ","r","u","l","e","s"," ">>, <<>> >>]}

\* ------------------------------------------------------------------------
\* State
\* ------------------------------------------------------------------------
VARIABLES
    pc,            \* position of the running call
    phase,         \* "initial" or "retry": which retrieve call of query runs
    question,      \* the argument of query
    queries,       \* retrieve: the expanded queries
    meta_filter,   \* retrieve: the filter built from the question
    all_results,   \* retrieve: the ranked lists collected so far
    qi,            \* retrieve: index of the next query to search
    index_ok,      \* retrieve: some index call of this retrieve call has returned
    retrieval,     \* query: the dict returned by the first retrieve
    retry,         \* query: the dict returned by the retry retrieve
    relevant,      \* grade_relevance: the list being built
    gi,            \* grade_relevance: index of the next chunk to grade
    relevant_docs, \* query: the relevant set
    gen_input,     \* the variables the generation prompt was invoked with
    generated,     \* the text returned by answer generation
    ground_out,    \* the grounding call: the answer it was given and its outcome
    result,        \* the dict returned by query
    calls,         \* number of calls made of retrieve / grading / generation / grounding
                   \* (per request in SpecConcurrent: the answers its calls received)
    parent_store,  \* SEBIRetriever.parent_store, shared by all requests
    circular_index, \* SEBIRetriever.circular_index, shared by all requests
    arg,           \* argument of a function applied on its own
    ret            \* its return value

vars == <<pc, phase, question, queries, meta_filter, all_results, qi, index_ok, retrieval,
          retry, relevant, gi, relevant_docs, gen_input, generated, ground_out,
          result, calls, parent_store, circular_index, arg, ret>>

retrieveVars == <<queries, meta_filter, all_results, qi, index_ok>>

NoCalls == [retrieve |-> 0, grade |-> 0, generate |-> 0, ground |-> 0]

\* every variable of a query that has not started
Idle ==
    /\ phase = "initial"
    /\ queries = <<>>
    /\ meta_filter = [op |-> "none", clauses |-> <<>>]
    /\ all_results = <<>>
    /\ qi = 1
    /\ index_ok = FALSE
    /\ retrieval = NoRetrieval
    /\ retry = NoRetrieval
    /\ relevant = <<>>
    /\ gi = 1
    /\ relevant_docs = <<>>
    /\ gen_input = NoInput
    /\ generated = <<>>
    /\ ground_out = NoGroundCall
    /\ result = NoResult
    /\ calls = NoCalls
    /\ parent_store = BuiltParentStore
    /\ circular_index = BuiltCircularIndex

Init ==
    /\ pc = "retrieve"
    /\ question \in Questions
    /\ Idle
    /\ arg = <<>>
    /\ ret = <<>>

\* ------------------------------------------------------------------------
\* SEBIRetriever.retrieve
\* ------------------------------------------------------------------------
\* steps 1 and 2: the expansion call and the filter
Expand ==
    /\ pc = "retrieve"
    /\ \E o \in ExpansionOutcomes :
         queries' = generate_multi_queries(question, o)
    /\ meta_filter' = build_metadata_filter(question)
    /\ all_results' = <<>>
    /\ qi' = 1
    /\ index_ok' = FALSE
    /\ calls' = [calls EXCEPT !.retrieve = @ + 1]
    /\ pc' = "search"
    /\ UNCHANGED <<phase, question, retrieval, retry, relevant, gi, relevant_docs,
                   gen_input, generated, ground_out, result, parent_store, circular_index, arg, ret>>

\* step 3: one iteration of `for q in queries`
Search ==
    /\ pc = "search"
    /\ qi <= Len(queries)
    /\ \E o1 \in IndexOutcomes :
         \E o2 \in (IF NeedsSecond(meta_filter, o1) THEN IndexOutcomes ELSE {NoCall}) :
           \E o3 \in (IF NeedsThird(meta_filter, o1, o2) THEN IndexOutcomes ELSE {NoCall}) :
             /\ all_results' = all_results \o search_one(meta_filter, o1, o2, o3)
             /\ index_ok' = (index_ok \/ "ok" \in {o1.st, o2.st, o3.st})
    /\ qi' = qi + 1
    /\ UNCHANGED <<pc, phase, question, queries, meta_filter, retrieval, retry,
                   relevant, gi, relevant_docs, gen_input, generated, ground_out,
                   result, calls, parent_store, circular_index, arg, ret>>

\* steps 4 to 7 and the return to query, which goes on to grade the chunks
FinishRetrieve ==
    /\ pc = "search"
    /\ qi > Len(queries)
    /\ \E g \in GlossaryOutcomes :
         LET res == RetrieveResult(queries, meta_filter, all_results, parent_store, g)
         IN IF phase = "initial"
            THEN retrieval' = res /\ retry' = retry
            ELSE \* query reads child_docs and the two contexts of retry only
                 /\ retry' = [res EXCEPT !.definitions = <<>>, !.queries_used = <<>>]
                 /\ retrieval' = retrieval
    /\ queries' = <<>>
    /\ meta_filter' = [op |-> "none", clauses |-> <<>>]
    /\ all_results' = <<>>
    /\ qi' = 1
    /\ relevant' = <<>>
    /\ gi' = 1
    /\ pc' = "grade"
    /\ UNCHANGED <<phase, question, index_ok, relevant_docs, gen_input, generated,
                   ground_out, result, calls, parent_store, circular_index, arg, ret>>

\* ------------------------------------------------------------------------
\* SEBIRAGChain.query
\* ------------------------------------------------------------------------
\* the chunks the running grade_relevance call was given
DocsToGrade == IF phase = "initial" THEN retrieval.child_docs ELSE retry.child_docs

\* query returns or raises: its locals cease to exist
FrameDropped ==
    /\ phase' = "initial"
    /\ retrieval' = NoRetrieval
    /\ retry' = NoRetrieval
    /\ relevant' = <<>>
    /\ gi' = 1
    /\ relevant_docs' = <<>>
    /\ gen_input' = NoInput

\* mutant: the early return is missing, query goes on to generation
ReturnNoResultsFallsThrough ==
    /\ pc = "grade"
    /\ phase = "initial"
    /\ retrieval.child_docs = <<>>
    /\ pc' = "generate"
    /\ UNCHANGED <<phase, question, retrieveVars, retrieval, retry, relevant, gi,
                   relevant_docs, gen_input, generated, ground_out, result,
                   calls, parent_store, circular_index, arg, ret>>

\* `if not child_docs: return {...}`
ReturnNoResults ==
    /\ pc = "grade"
    /\ phase = "initial"
    /\ retrieval.child_docs = <<>>
    /\ result' = NoResultsDict(retrieval)
    /\ pc' = "done"
    /\ FrameDropped
    /\ UNCHANGED <<question, retrieveVars, generated, ground_out, calls,
                   parent_store, circular_index, arg, ret>>

\* one grading call of grade_relevance
GradeChunk ==
    /\ pc = "grade"
    /\ gi <= Len(DocsToGrade)
    /\ \E o \in QueryGradeOutcomes :
         relevant' = GradeStep(relevant, DocsToGrade[gi], o)
    /\ gi' = gi + 1
    /\ calls' = [calls EXCEPT !.grade = @ + 1]
    /\ UNCHANGED <<pc, phase, question, retrieveVars, retrieval, retry,
                   relevant_docs, gen_input, generated, ground_out, result,
                   parent_store, circular_index, arg, ret>>

\* the first grade_relevance returns; step 3 decides on the retry
DecideRetry ==
    /\ pc = "grade"
    /\ phase = "initial"
    /\ retrieval.child_docs # <<>>
    /\ gi > Len(DocsToGrade)
    /\ relevant_docs' = NeverEmpty(relevant, DocsToGrade)
    /\ IF ShouldRetry(relevant_docs', retrieval)
       THEN pc' = "retrieve" /\ phase' = "retry"
       ELSE pc' = "generate" /\ phase' = phase
    /\ relevant' = <<>>
    /\ gi' = 1
    /\ UNCHANGED <<question, retrieveVars, retrieval, retry, gen_input, generated,
                   ground_out, result, calls, parent_store, circular_index, arg, ret>>

\* mutant: the retry is a loop, repeated while the relevant set stays small
MergeRetryLoop ==
    /\ pc = "grade"
    /\ phase = "retry"
    /\ gi > Len(DocsToGrade)
    /\ LET extra == NeverEmpty(relevant, DocsToGrade)
       IN relevant_docs' = MergeExtra(relevant_docs, extra, Range(relevant_docs))
    /\ retrieval' = MergeContexts(retrieval, retry)
    /\ retry' = NoRetrieval
    /\ relevant' = <<>>
    /\ gi' = 1
    /\ pc' = IF Len(relevant_docs') < 2 THEN "retrieve" ELSE "generate"
    /\ UNCHANGED <<phase, question, retrieveVars, gen_input, generated,
                   ground_out, result, calls, parent_store, circular_index, arg, ret>>

\* the second grade_relevance returns; its chunks and contexts are merged
MergeRetry ==
    /\ pc = "grade"
    /\ phase = "retry"
    /\ gi > Len(DocsToGrade)
    /\ LET extra == NeverEmpty(relevant, DocsToGrade)
       IN relevant_docs' = MergeExtra(relevant_docs, extra, Range(relevant_docs))
    /\ retrieval' = MergeContexts(retrieval, retry)
    /\ retry' = NoRetrieval    \* the local is not read again
    /\ relevant' = <<>>
    /\ gi' = 1
    /\ pc' = "generate"
    /\ UNCHANGED <<phase, question, retrieveVars, gen_input, generated,
                   ground_out, result, calls, parent_store, circular_index, arg, ret>>

\* mutant: a failed generation is caught and query goes on with no answer
GenerateHandled ==
    /\ pc = "generate"
    /\ calls' = [calls EXCEPT !.generate = @ + 1]
    /\ \E o \in QueryGenerateOutcomes :
         /\ generated' = o.text
         /\ gen_input' = GenerationInput(question, retrieval)
         /\ pc' = "ground"
         /\ UNCHANGED <<phase, retrieval, retry, relevant, gi, relevant_docs>>
    /\ UNCHANGED <<question, retrieveVars, ground_out, result, parent_store, circular_index, arg, ret>>

\* step 4: generate_answer has no handler, an error of the call leaves query
Generate ==
    /\ pc = "generate"
    /\ calls' = [calls EXCEPT !.generate = @ + 1]
    /\ \E o \in QueryGenerateOutcomes :
         IF o.st = "ok"
         THEN /\ generated' = o.text
              /\ gen_input' = GenerationInput(question, retrieval)
              /\ pc' = "ground"
              /\ UNCHANGED <<phase, retrieval, retry, relevant, gi, relevant_docs>>
         ELSE /\ pc' = "raised"
              /\ generated' = generated
              /\ FrameDropped
    /\ UNCHANGED <<question, retrieveVars, ground_out, result, parent_store, circular_index, arg, ret>>

\* mutant: check_hallucination without its handler, a failed call leaves query
GroundCheckUnhandled ==
    /\ pc = "ground"
    /\ calls' = [calls EXCEPT !.ground = @ + 1]
    /\ \E o \in QueryGroundOutcomes :
         /\ ground_out' = GroundCall(generated, o)
         /\ IF o.st = "ok"
            THEN /\ result' = ResultDict(generated, check_hallucination(o),
                                        relevant_docs, retrieval)
                 /\ pc' = "done"
            ELSE /\ result' = result
                 /\ pc' = "raised"
    /\ FrameDropped
    /\ UNCHANGED <<question, retrieveVars, generated, parent_store, circular_index, arg, ret>>

\* step 5 and the assembly of the returned dict
GroundCheck ==
    /\ pc = "ground"
    /\ calls' = [calls EXCEPT !.ground = @ + 1]
    /\ \E o \in QueryGroundOutcomes :
         /\ ground_out' = GroundCall(generated, o)
         /\ result' = ResultDict(generated, check_hallucination(o), relevant_docs, retrieval)
    /\ pc' = "done"
    /\ FrameDropped
    /\ UNCHANGED <<question, retrieveVars, generated, parent_store, circular_index, arg, ret>>

Next ==
    \/ Expand
    \/ Search
    \/ FinishRetrieve
    \/ ReturnNoResults
    \/ GradeChunk
    \/ DecideRetry
    \/ MergeRetry
    \/ Generate
    \/ GroundCheck

Spec == Init /\ [][Next]_vars

\* ------------------------------------------------------------------------
\* Functions applied on their own: the argument is drawn in the initial
\* state, one action applies the function
\* ------------------------------------------------------------------------
NotRunning ==
    /\ question = <<>>
    /\ Idle
    /\ ret = <<>>

fnFrame == <<phase, question, queries, meta_filter, all_results, qi, index_ok, retrieval,
             retry, relevant, gi, relevant_docs, gen_input, generated,
             ground_out, result, calls, parent_store, circular_index, arg>>

\* --- the per-query search of retrieve ------------------------------------
InitSearch ==
    /\ pc = "call_search"
    /\ \E q \in Questions, o1 \in IndexOutcomes :
         LET mf == build_metadata_filter(q) IN
         \E o2 \in (IF NeedsSecond(mf, o1) THEN IndexOutcomes ELSE {NoCall}) :
           \E o3 \in (IF NeedsThird(mf, o1, o2) THEN IndexOutcomes ELSE {NoCall}) :
             arg = [mf |-> mf, o1 |-> o1, o2 |-> o2, o3 |-> o3]
    /\ NotRunning

ApplySearch ==
    /\ pc = "call_search"
    /\ ret' = search_one(arg.mf, arg.o1, arg.o2, arg.o3)
    /\ pc' = "returned"
    /\ UNCHANGED fnFrame

SpecSearch == InitSearch /\ [][ApplySearch]_vars

\* --- grade_relevance -----------------------------------------------------
GradedLists == WindowLists(NumChunks, Min(NumChunks, TOP_K))

InitGrade ==
    /\ pc = "call_grade"
    /\ \E docs \in GradedLists :
         \E outcomes \in [1..Len(docs) -> GradeOutcomes] :
           arg = [docs |-> docs, outcomes |-> outcomes]
    /\ NotRunning

ApplyGrade ==
    /\ pc = "call_grade"
    /\ ret' = grade_relevance(arg.docs, arg.outcomes)
    /\ pc' = "returned"
    /\ UNCHANGED fnFrame

SpecGrade == InitGrade /\ [][ApplyGrade]_vars

\* --- reciprocal_rank_fusion and the truncation of retrieve ----------------
\* ranked lists over TOP_K + 1 chunks, so that a fusion can exceed TOP_K
FusionInputs ==
    UNION {[1..n -> WindowLists(TOP_K + 1, Min(FusionHits, TOP_K))] : n \in 0..FusionLists}

InitFusion ==
    /\ pc = "call_fusion"
    /\ arg \in FusionInputs
    /\ NotRunning

ApplyFusion ==
    /\ pc = "call_fusion"
    /\ ret' = FusedDocs(arg)
    /\ pc' = "returned"
    /\ UNCHANGED fnFrame

SpecFusion == InitFusion /\ [][ApplyFusion]_vars

\* --- the search loop of retrieve -------------------------------------------
\* mutant: the loop ends at the first query that contributes nothing
RECURSIVE SearchLoopAbortOnFailure(_, _, _)
SearchLoopAbortOnFailure(all_res, mf, outs) ==
    IF outs = <<>> THEN all_res
    ELSE LET got == search_one(mf, Head(outs).o1, Head(outs).o2, Head(outs).o3)
         IN IF got = <<>> THEN all_res
            ELSE SearchLoopAbortOnFailure(all_res \o got, mf, Tail(outs))

\* `for q in queries: ...`: outs[i] holds the outcomes of the index calls
\* made for the i-th expanded query
RECURSIVE SearchLoop(_, _, _)
SearchLoop(all_res, mf, outs) ==
    IF outs = <<>> THEN all_res
    ELSE SearchLoop(all_res \o search_one(mf, Head(outs).o1, Head(outs).o2, Head(outs).o3),
                    mf, Tail(outs))

\* index outcomes over two chunks: an error, or 0, 1 or 2 hits
LoopOutcomes == {[st |-> "ok", docs |-> h] : h \in WindowLists(2, 2)} \cup {IndexErr}

\* the outcomes of the calls one loop iteration makes under filter mf
CallOutcomes(mf) ==
    UNION {UNION {{[o1 |-> o1, o2 |-> o2, o3 |-> o3] :
                     o3 \in (IF NeedsThird(mf, o1, o2) THEN LoopOutcomes ELSE {NoCall})} :
                  o2 \in (IF NeedsSecond(mf, o1) THEN LoopOutcomes ELSE {NoCall})} :
           o1 \in LoopOutcomes}

InitSearchLoop ==
    /\ pc = "call_search_loop"
    /\ \E q \in Questions :
         LET mf == build_metadata_filter(q) IN
         \E n \in 1..Min(LoopQueries, MULTI_QUERY_COUNT + 1) :
           \E outs \in [1..n -> CallOutcomes(mf)] :
             arg = [mf |-> mf, outs |-> outs]
    /\ NotRunning

ApplySearchLoop ==
    /\ pc = "call_search_loop"
    /\ ret' = SearchLoop(<<>>, arg.mf, arg.outs)
    /\ pc' = "returned"
    /\ UNCHANGED fnFrame

SpecSearchLoop == InitSearchLoop /\ [][ApplySearchLoop]_vars

\* --- generate_multi_queries ------------------------------------------------
\* lines a model response is made of: empty, blank, plain, padded
ResponseLines == {<<>>, <<" ">>, <<"a">>, <<" ", "b", " ", "c", "\t">>}

\* responses of up to MaxLines lines, and the failed call
ExpandOutcomes ==
    {[st |-> "ok", lines |-> ls] :
        ls \in UNION {[1..n -> ResponseLines] : n \in 0..MaxLines}}
    \cup {ExpansionErr}

InitExpand ==
    /\ pc = "call_expand"
    /\ \E q \in Questions, o \in ExpandOutcomes : arg = [question |-> q, outcome |-> o]
    /\ NotRunning

ApplyExpand ==
    /\ pc = "call_expand"
    /\ ret' = generate_multi_queries(arg.question, arg.outcome)
    /\ pc' = "returned"
    /\ UNCHANGED fnFrame

SpecExpand == InitExpand /\ [][ApplyExpand]_vars

\* --- build_metadata_filter ---------------------------------------------------
\* the question of the versioning scenario
ActiveCircularsQuestion ==
    <<"A","r","e"," ","t","h","e","r","e"," ","a","n","y"," ","a","c","t","i","v","e"," ","c","i","r","c","u","l","a","r","s"," ","f","o","r"," ","M","u","t","u","a","l"," ","F","u","n","d","s","?">>

\* parts questions are put together from: no keyword; two audience keywords,
\* the later of the table first; a recency and a currency word; a keyword in
\* mixed case; a recency word; a currency word inside another word; an
\* audience keyword in capitals; a recency phrase of two words
Phrases == {<<"r","u","l","e","s">>,
            <<"R","E","I","T","s"," ","a","n","d"," ","M","u","t","u","a","l"," ","F","u","n","d","s">>,
            <<"l","a","t","e","s","t"," ","n","o","r","m","s"," ","i","n"," ","f","o","r","c","e">>,
            <<"I","n","v","I","T">>,
            <<"n","e","w","e","s","t">>,
            <<"i","n","a","c","t","i","v","e">>,
            <<"S","t","o","c","k"," ","B","r","o","k","e","r">>,
            <<"m","o","s","t"," ","r","e","c","e","n","t">>}

RECURSIVE JoinPhrases(_)
JoinPhrases(ps) ==
    IF ps = <<>> THEN <<>>
    ELSE IF Len(ps) = 1 THEN ps[1]
    ELSE ps[1] \o <<" ">> \o JoinPhrases(Tail(ps))

FilterQuestions ==
    {ActiveCircularsQuestion}
    \cup {JoinPhrases(ps) : ps \in UNION {[1..n -> Phrases] : n \in 0..MaxPhrases}}

InitFilter ==
    /\ pc = "call_filter"
    /\ \E q \in FilterQuestions : arg = [question |-> q]
    /\ NotRunning

ApplyFilter ==
    /\ pc = "call_filter"
    /\ ret' = build_metadata_filter(arg.question)
    /\ pc' = "returned"
    /\ UNCHANGED fnFrame

SpecFilter == InitFilter /\ [][ApplyFilter]_vars

\* ------------------------------------------------------------------------
\* determine_latest_versions (ingest)
\* ------------------------------------------------------------------------
\* A circular is [filename, subject_normalized, date_parsed]; date_parsed is
\* the ISO text of the date, which sorts as the date does, modelled as a
\* number, 0 standing for "" (no date parsed from the file name).

\* mutant: a sort that is not stable, c goes in front of the circulars of its date
RECURSIVE InsertByDateUnstable(_, _)
InsertByDateUnstable(group, c) ==
    IF group = <<>> THEN <<c>>
    ELSE IF Head(group).date_parsed > c.date_parsed
         THEN <<Head(group)>> \o InsertByDateUnstable(Tail(group), c)
         ELSE <<c>> \o group

\* c goes behind every circular whose date is at least its own
RECURSIVE InsertByDate(_, _)
InsertByDate(group, c) ==
    IF group = <<>> THEN <<c>>
    ELSE IF Head(group).date_parsed >= c.date_parsed
         THEN <<Head(group)>> \o InsertByDate(Tail(group), c)
         ELSE <<c>> \o group

\* group.sort(key=date_parsed, reverse=True): stable
RECURSIVE SortByDateDesc(_)
SortByDateDesc(group) ==
    IF group = <<>> THEN <<>>
    ELSE InsertByDate(SortByDateDesc(SubSeq(group, 1, Len(group) - 1)),
                      group[Len(group)])

\* subject_groups[key]: the circulars of one subject, in input order
SubjectGroup(all_circulars, key) ==
    SelectSeq(all_circulars, LAMBDA c : c.subject_normalized = key)

\* the fields the loop over one sorted group writes into circular c;
\* version_count 0 and all_versions <<>> stand for keys that are not set
VersionFields(c, group) ==
    LET i == CHOOSE i \in 1..Len(group) : group[i].filename = c.filename
    IN [filename |-> c.filename,
        subject_normalized |-> c.subject_normalized,
        date_parsed |-> c.date_parsed,
        is_latest |-> (i = 1),
        status |-> IF i = 1 THEN "ACTIVE" ELSE "SUPERSEDED",
        version_count |-> IF Len(group) > 1 THEN Len(group) ELSE 0,
        all_versions |-> IF Len(group) > 1
                         THEN [n \in 1..Len(group) |-> group[n].filename] ELSE <<>>]

determine_latest_versions(all_circulars) ==
    [n \in 1..Len(all_circulars) |->
        VersionFields(all_circulars[n],
                      SortByDateDesc(SubjectGroup(all_circulars,
                                                  all_circulars[n].subject_normalized)))]

Subjects == {"kyc norms", "margin rules"}

\* lists of up to MaxDocs circulars, file names in the sorted order of the glob
CircularLists ==
    UNION {{[i \in 1..n |-> [filename |-> i,
                             subject_normalized |-> f[i][1],
                             date_parsed |-> f[i][2]]] :
              f \in [1..n -> Subjects \X (0..MaxDate)]} : n \in 0..MaxDocs}

InitVersions ==
    /\ pc = "call_versions"
    /\ arg \in CircularLists
    /\ NotRunning

ApplyVersions ==
    /\ pc = "call_versions"
    /\ ret' = determine_latest_versions(arg)
    /\ pc' = "returned"
    /\ UNCHANGED fnFrame

SpecVersions == InitVersions /\ [][ApplyVersions]_vars

\* --- the sources loop of query ---------------------------------------------
\* relevant sets of up to MaxRelevant distinct chunks over TOP_K + 1 chunks,
\* which belong to four source documents
RelevantSets ==
    UNION {{s \in [1..n -> 1..(TOP_K + 1)] : \A i, j \in 1..n : s[i] = s[j] => i = j} :
           n \in 0..Min(MaxRelevant, TOP_K + 1)}

InitSources ==
    /\ pc = "call_sources"
    /\ arg \in RelevantSets
    /\ NotRunning

ApplySources ==
    /\ pc = "call_sources"
    /\ ret' = Sources(arg)
    /\ pc' = "returned"
    /\ UNCHANGED fnFrame

SpecSources == InitSources /\ [][ApplySources]_vars

\* --- the parent block handed to answer generation -------------------------
\* the parent store of a corpus of TOP_K + 1 chunks, which have five parents
WideParentStore == [p \in {ParentOf(c) : c \in 1..(TOP_K + 1)} |-> ParentText(p)]

\* fused children of a retrieve call: up to MaxFused chunks in rank order
FusedLists == WindowLists(TOP_K + 1, Min(MaxFused, TOP_K))

\* query from the return of retrieve to the call of generate_answer: `first`
\* are the fused children of the initial retrieve, `second` those of the
\* retry pass when one was made
ParentsToGenerate(first, retried, second) ==
    LET none == [op |-> "none", clauses |-> <<>>]
        noglossary == [st |-> "ok", docs |-> <<>>]
        retrieval1 == RetrieveResult(<<>>, none, <<first>>, WideParentStore, noglossary)
        retry1 == RetrieveResult(<<>>, none, <<second>>, WideParentStore, noglossary)
        merged == IF retried THEN MergeContexts(retrieval1, retry1) ELSE retrieval1
    IN GenerationInput(<<>>, merged).parent_context

InitParents ==
    /\ pc = "call_parents"
    /\ \E first \in FusedLists \ {<<>>}, retried \in BOOLEAN :
         \E second \in (IF retried THEN FusedLists ELSE {<<>>}) :
           arg = [first |-> first, retried |-> retried, second |-> second]
    /\ NotRunning

ApplyParents ==
    /\ pc = "call_parents"
    /\ ret' = ParentsToGenerate(arg.first, arg.retried, arg.second)
    /\ pc' = "returned"
    /\ UNCHANGED fnFrame

SpecParents == InitParents /\ [][ApplyParents]_vars

\* ------------------------------------------------------------------------
\* Two requests on one SEBIRAGChain and one SEBIRetriever
\* ------------------------------------------------------------------------
\* Each request runs query in a thread of its own.  Its locals are the
\* entries pc[t], question[t], retrieval[t], retry[t], relevant_docs[t],
\* generated[t] and result[t]; calls[t] are the answers the external calls
\* made for it have given, in the order made; parent_store and
\* circular_index are the fields of the one retriever.  A step of a request
\* runs query from one external call to the next.
Requests == {"a", "b"}

\* a question without keyword and one a filter is built from
ConcQuestions == {<<"W","h","a","t"," ","a","r","e"," ","t","h","e"," ","f","e","e","s","?">>,
                  <<"R","E","I","T"," ","r","u","l","e","s">>}

ConcIndexOutcomes == {[st |-> "ok", docs |-> <<>>], [st |-> "ok", docs |-> <<2, 1>>]}

\* the outcomes of the index calls one loop iteration makes under filter mf
ConcCallOutcomes(mf) ==
    UNION {UNION {{[o1 |-> o1, o2 |-> o2, o3 |-> o3] :
                     o3 \in (IF NeedsThird(mf, o1, o2) THEN ConcIndexOutcomes ELSE {NoCall})} :
                  o2 \in (IF NeedsSecond(mf, o1) THEN ConcIndexOutcomes ELSE {NoCall})} :
           o1 \in ConcIndexOutcomes}

\* what the external calls of one retrieve call answer: the expansion call
\* fails, the glossary has no entry, the index answers the one query
ConcRetrieveOutcomes(q) ==
    {[expansion |-> ExpansionErr, searches |-> <<s>>, glossary |-> [st |-> "ok", docs |-> <<>>]] :
        s \in ConcCallOutcomes(build_metadata_filter(q))}

ConcGradeOutcomes == {[st |-> "ok", text |-> RelevantWord],
                      [st |-> "ok", text |-> NotRelevantWord]}

ConcGroundOutcomes == {GroundErr, [st |-> "ok", text |-> NotGroundedWord]}

\* retrieve as a function of the question, the answers of its external
\* calls and the parent store
RetrieveOnce(q, out, store) ==
    LET qs == generate_multi_queries(q, out.expansion)
        mf == build_metadata_filter(q)
    IN RetrieveResult(qs, mf, SearchLoop(<<>>, mf, out.searches), store, out.glossary)

\* query as a function of the question and the answers of its external
\* calls, in the order made: the dict returned, or the exception raised
QueryFromGenerate(relevant_docs1, retrieval1, answers) ==
    IF answers[1].st = "err"
    THEN [st |-> "raised", result |-> NoResult]
    ELSE [st |-> "returned",
          result |-> ResultDict(answers[1].text, check_hallucination(answers[2]),
                                relevant_docs1, retrieval1)]

QueryFromRetry(relevant_docs1, retrieval1, retry1, answers) ==
    LET extra == grade_relevance(retry1.child_docs, answers[1])
    IN QueryFromGenerate(MergeExtra(relevant_docs1, extra, Range(relevant_docs1)),
                         MergeContexts(retrieval1, retry1), Tail(answers))

QueryFromGrade(q, relevant_docs1, retrieval1, answers, store) ==
    IF ShouldRetry(relevant_docs1, retrieval1)
    THEN QueryFromRetry(relevant_docs1, retrieval1,
                        RetrieveOnce(q, answers[1], store), Tail(answers))
    ELSE QueryFromGenerate(relevant_docs1, retrieval1, answers)

QueryFromRetrieve(q, retrieval1, answers, store) ==
    IF retrieval1.child_docs = <<>>
    THEN [st |-> "returned", result |-> NoResultsDict(retrieval1)]
    ELSE QueryFromGrade(q, grade_relevance(retrieval1.child_docs, answers[1]),
                        retrieval1, Tail(answers), store)

QueryAlone(q, answers, store) ==
    QueryFromRetrieve(q, RetrieveOnce(q, answers[1], store), Tail(answers), store)

\* mutant: the dict is kept in a field of the chain, which every request reads
StoreRetrievalInChain(slots, t, res) == [u \in DOMAIN slots |-> res]

\* `retrieval = ...`, `retry = ...`: a local of the running call
StoreRetrieval(slots, t, res) == [slots EXCEPT ![t] = res]

concUnused == <<phase, queries, meta_filter, all_results, qi, index_ok, relevant, gi,
                gen_input, ground_out, arg, ret>>

InitConcurrent ==
    /\ pc = [t \in Requests |-> "retrieve"]
    /\ question \in [Requests -> ConcQuestions]
    /\ retrieval = [t \in Requests |-> NoRetrieval]
    /\ retry = [t \in Requests |-> NoRetrieval]
    /\ relevant_docs = [t \in Requests |-> <<>>]
    /\ generated = [t \in Requests |-> <<>>]
    /\ result = [t \in Requests |-> NoResult]
    /\ calls = [t \in Requests |-> <<>>]
    /\ parent_store = BuiltParentStore
    /\ circular_index = BuiltCircularIndex
    /\ phase = "initial"
    /\ queries = <<>>
    /\ meta_filter = [op |-> "none", clauses |-> <<>>]
    /\ all_results = <<>>
    /\ qi = 1
    /\ index_ok = FALSE
    /\ relevant = <<>>
    /\ gi = 1
    /\ gen_input = NoInput
    /\ ground_out = NoGroundCall
    /\ arg = <<>>
    /\ ret = <<>>

\* step 1 and the early return
ConcRetrieve(t) ==
    /\ pc[t] = "retrieve"
    /\ \E o \in ConcRetrieveOutcomes(question[t]) :
         LET res == RetrieveOnce(question[t], o, parent_store)
         IN /\ retrieval' = StoreRetrieval(retrieval, t, res)
            /\ calls' = [calls EXCEPT ![t] = Append(@, o)]
            /\ IF res.child_docs = <<>>
               THEN /\ result' = [result EXCEPT ![t] = NoResultsDict(res)]
                    /\ pc' = [pc EXCEPT ![t] = "done"]
               ELSE /\ result' = result
                    /\ pc' = [pc EXCEPT ![t] = "grade"]
    /\ UNCHANGED <<question, retry, relevant_docs, generated, parent_store,
                   circular_index, concUnused>>

\* step 2 and the test of step 3
ConcGrade(t) ==
    /\ pc[t] = "grade"
    /\ \E o \in [1..Len(retrieval[t].child_docs) -> ConcGradeOutcomes] :
         LET rel == grade_relevance(retrieval[t].child_docs, o)
         IN /\ relevant_docs' = [relevant_docs EXCEPT ![t] = rel]
            /\ calls' = [calls EXCEPT ![t] = Append(@, o)]
            /\ pc' = [pc EXCEPT ![t] = IF ShouldRetry(rel, retrieval[t])
                                       THEN "retry" ELSE "generate"]
    /\ UNCHANGED <<question, retrieval, retry, generated, result, parent_store,
                   circular_index, concUnused>>

\* step 3: the second retrieve call
ConcRetry(t) ==
    /\ pc[t] = "retry"
    /\ \E o \in ConcRetrieveOutcomes(question[t]) :
         /\ retry' = StoreRetrieval(retry, t, RetrieveOnce(question[t], o, parent_store))
         /\ calls' = [calls EXCEPT ![t] = Append(@, o)]
    /\ pc' = [pc EXCEPT ![t] = "regrade"]
    /\ UNCHANGED <<question, retrieval, relevant_docs, generated, result, parent_store,
                   circular_index, concUnused>>

\* step 3: the second grading and the merge
ConcRegrade(t) ==
    /\ pc[t] = "regrade"
    /\ \E o \in [1..Len(retry[t].child_docs) -> ConcGradeOutcomes] :
         LET extra == grade_relevance(retry[t].child_docs, o)
         IN /\ relevant_docs' = [relevant_docs EXCEPT ![t] =
                                    MergeExtra(@, extra, Range(relevant_docs[t]))]
            /\ calls' = [calls EXCEPT ![t] = Append(@, o)]
    /\ retrieval' = [retrieval EXCEPT ![t] = MergeContexts(@, retry[t])]
    /\ pc' = [pc EXCEPT ![t] = "generate"]
    /\ UNCHANGED <<question, retry, generated, result, parent_store,
                   circular_index, concUnused>>

\* step 4
ConcGenerate(t) ==
    /\ pc[t] = "generate"
    /\ \E o \in QueryGenerateOutcomes :
         /\ calls' = [calls EXCEPT ![t] = Append(@, o)]
         /\ IF o.st = "ok"
            THEN /\ generated' = [generated EXCEPT ![t] = o.text]
                 /\ pc' = [pc EXCEPT ![t] = "ground"]
            ELSE /\ generated' = generated
                 /\ pc' = [pc EXCEPT ![t] = "raised"]
    /\ UNCHANGED <<question, retrieval, retry, relevant_docs, result, parent_store,
                   circular_index, concUnused>>

\* step 5 and the returned dict
ConcGround(t) ==
    /\ pc[t] = "ground"
    /\ \E o \in ConcGroundOutcomes :
         /\ calls' = [calls EXCEPT ![t] = Append(@, o)]
         /\ result' = [result EXCEPT ![t] =
                          ResultDict(generated[t], check_hallucination(o),
                                     relevant_docs[t], retrieval[t])]
    /\ pc' = [pc EXCEPT ![t] = "done"]
    /\ UNCHANGED <<question, retrieval, retry, relevant_docs, generated, parent_store,
                   circular_index, concUnused>>

NextConcurrent ==
    \E t \in Requests :
        \/ ConcRetrieve(t)
        \/ ConcGrade(t)
        \/ ConcRetry(t)
        \/ ConcRegrade(t)
        \/ ConcGenerate(t)
        \/ ConcGround(t)

SpecConcurrent == InitConcurrent /\ [][NextConcurrent]_vars

\* ------------------------------------------------------------------------
\* RecursiveCharacterTextSplitter, as create_parent_child_chunks builds it:
\* literal separators, kept at the start of the piece that follows them,
\* lengths counted in characters, chunks stripped of white space
\* ------------------------------------------------------------------------
\* the pieces text falls into at the occurrences of sep, found from the left:
\* what precedes the first one, then every occurrence with what follows it
RECURSIVE SplitPieces(_, _, _)
SplitPieces(text, sep, cur) ==
    IF text = <<>> THEN <<cur>>
    ELSE IF IsPrefixAt(sep, text, 1)
         THEN <<cur>> \o SplitPieces(SubSeq(text, Len(sep) + 1, Len(text)), sep, sep)
         ELSE SplitPieces(Tail(text), sep, Append(cur, Head(text)))

\* the empty pieces are dropped
split_text_with_regex(text, sep) == SelectNonEmpty(SplitPieces(text, sep, <<>>))

RECURSIVE JoinDocs(_)
JoinDocs(docs) == IF docs = <<>> THEN <<>> ELSE Head(docs) \o JoinDocs(Tail(docs))

\* the chunk made of the pieces of current_doc: none when it is blank
join_docs(current_doc) ==
    LET text == Strip(JoinDocs(current_doc))
    IN IF text = <<>> THEN <<>> ELSE <<text>>

\* pieces leave the front of the window until what stays fits the overlap
\* and leaves room for the piece of length len
RECURSIVE PopFront(_, _, _, _, _)
PopFront(current_doc, total, len, chunk_size, chunk_overlap) ==
    IF total > chunk_overlap \/ (total + len > chunk_size /\ total > 0)
    THEN PopFront(Tail(current_doc), total - Len(Head(current_doc)), len,
                  chunk_size, chunk_overlap)
    ELSE <<current_doc, total>>

\* pieces are gathered into chunks of at most chunk_size characters, a new
\* chunk starting with the last pieces of the one before
RECURSIVE MergeLoop(_, _, _, _, _, _)
MergeLoop(splits, docs, current_doc, total, chunk_size, chunk_overlap) ==
    IF splits = <<>> THEN docs \o join_docs(current_doc)
    ELSE LET d == Head(splits)
             full == total + Len(d) > chunk_size /\ current_doc # <<>>
             kept == IF full
                     THEN PopFront(current_doc, total, Len(d), chunk_size, chunk_overlap)
                     ELSE <<current_doc, total>>
         IN MergeLoop(Tail(splits),
                      IF full THEN docs \o join_docs(current_doc) ELSE docs,
                      Append(kept[1], d), kept[2] + Len(d),
                      chunk_size, chunk_overlap)

merge_splits(splits, chunk_size, chunk_overlap) ==
    MergeLoop(splits, <<>>, <<>>, 0, chunk_size, chunk_overlap)

\* the text is split at the first separator of the list it contains; pieces
\* shorter than chunk_size are merged, a longer piece is split again with
\* the separators that follow, or kept whole when none follows
RECURSIVE SplitText(_, _, _, _)
RECURSIVE SplitLoop(_, _, _, _, _, _)
SplitLoop(splits, good_splits, final_chunks, new_separators, chunk_size, chunk_overlap) ==
    LET merged == IF good_splits # <<>>
                  THEN merge_splits(good_splits, chunk_size, chunk_overlap) ELSE <<>>
    IN IF splits = <<>> THEN final_chunks \o merged
       ELSE IF Len(Head(splits)) < chunk_size
            THEN SplitLoop(Tail(splits), Append(good_splits, Head(splits)), final_chunks,
                           new_separators, chunk_size, chunk_overlap)
            ELSE SplitLoop(Tail(splits), <<>>,
                           final_chunks \o merged
                           \o (IF new_separators = <<>> THEN <<Head(splits)>>
                               ELSE SplitText(Head(splits), new_separators,
                                              chunk_size, chunk_overlap)),
                           new_separators, chunk_size, chunk_overlap)

SplitText(text, separators, chunk_size, chunk_overlap) ==
    LET found == {i \in 1..Len(separators) : Contains(separators[i], text)}
        i == IF found # {} THEN CHOOSE i \in found : \A j \in found : i <= j
             ELSE Len(separators)
        new_separators == IF found # {}
                          THEN SubSeq(separators, i + 1, Len(separators)) ELSE <<>>
    IN SplitLoop(split_text_with_regex(text, separators[i]), <<>>, <<>>,
                 new_separators, chunk_size, chunk_overlap)

\* ------------------------------------------------------------------------
\* create_parent_child_chunks (chunker)
\* ------------------------------------------------------------------------
\* "[" stands for the page marker "[Page n]" that ingest writes between pages
ParentSeparators == << <<"\n", "\n", "[">>, <<"\n", "\n">>, <<"\n">>, <<".", " ">>, <<" ">> >>
ChildSeparators == << <<"\n", "\n">>, <<"\n">>, <<".", " ">>, <<" ">> >>

\* mutant: one id, drawn once, is used again and again
uuid4Once(drawn) == <<"uuid", 1>>

\* str(uuid.uuid4()): an id no earlier call has returned; drawn counts the calls
uuid4(drawn) == <<"uuid", drawn + 1>>

\* mutant: the children are split from the text of the whole document
child_textsOfDocument(parent_text, full_text) ==
    SplitText(full_text, ChildSeparators, ChildSize, ChildOverlap)

\* child_splitter.split_text(parent_text)
child_texts(parent_text, full_text) ==
    SplitText(parent_text, ChildSeparators, ChildSize, ChildOverlap)

\* the loop over the child texts of one parent; out is [children, drawn]
RECURSIVE ChildLoop(_, _, _)
ChildLoop(texts, parent_id, out) ==
    IF texts = <<>> THEN out
    ELSE ChildLoop(Tail(texts), parent_id,
                   [children |-> Append(out.children,
                                        [id |-> uuid4(out.drawn), text |-> Head(texts),
                                         parent_id |-> parent_id]),
                    drawn |-> out.drawn + 1])

\* the loop over the parent texts; out is [parents, children, drawn]
RECURSIVE ParentChunkLoop(_, _, _)
ParentChunkLoop(parent_texts, full_text, out) ==
    IF parent_texts = <<>> THEN out
    ELSE LET parent_id == uuid4(out.drawn)
             sub == ChildLoop(child_texts(Head(parent_texts), full_text), parent_id,
                              [children |-> out.children, drawn |-> out.drawn + 1])
         IN ParentChunkLoop(Tail(parent_texts), full_text,
                            [parents |-> Append(out.parents,
                                                [id |-> parent_id, text |-> Head(parent_texts)]),
                             children |-> sub.children,
                             drawn |-> sub.drawn])

\* (parents, children) of one document, and the number of ids drawn after it
create_parent_child_chunks(full_text, drawn) ==
    IF Strip(full_text) = <<>>
    THEN [parents |-> <<>>, children |-> <<>>, drawn |-> drawn]
    ELSE ParentChunkLoop(SplitText(full_text, ParentSeparators, ParentSize, ParentOverlap),
                         full_text,
                         [parents |-> <<>>, children |-> <<>>, drawn |-> drawn])

\* document texts of up to MaxText characters
TextSymbols == {"a", ".", " ", "\n", "["}
DocumentTexts == UNION {[1..n -> TextSymbols] : n \in 0..MaxText}

InitChunks ==
    /\ pc = "call_chunks"
    /\ arg \in DocumentTexts
    /\ NotRunning

ApplyChunks ==
    /\ pc = "call_chunks"
    /\ ret' = create_parent_child_chunks(arg, 0)
    /\ pc' = "returned"
    /\ UNCHANGED fnFrame

SpecChunks == InitChunks /\ [][ApplyChunks]_vars

\* --- check_hallucination ---------------------------------------------------
\* words a grounding response is put together from: the three verdicts as
\* asked for, capitalised and in capitals, with a blank for the underscore,
\* and words that are no verdict
VerdictWords == {<<"g","r","o","u","n","d","e","d">>,
                 <<"n","o","t","_","g","r","o","u","n","d","e","d">>,
                 <<"p","a","r","t","i","a","l">>,
                 <<"G","r","o","u","n","d","e","d",".">>,
                 <<"N","o","t","_","G","r","o","u","n","d","e","d">>,
                 <<"P","A","R","T","I","A","L">>,
                 <<"n","o","t"," ","g","r","o","u","n","d","e","d">>,
                 <<"u","n","s","u","r","e">>,
                 <<"\n">>}

\* responses of up to MaxVerdictWords words, and the failed call
VerdictOutcomes ==
    {[st |-> "ok", text |-> JoinPhrases(ws)] :
        ws \in UNION {[1..n -> VerdictWords] : n \in 0..MaxVerdictWords}}
    \cup {GroundErr}

InitVerdict ==
    /\ pc = "call_verdict"
    /\ arg \in VerdictOutcomes
    /\ NotRunning

ApplyVerdict ==
    /\ pc = "call_verdict"
    /\ ret' = check_hallucination(arg)
    /\ pc' = "returned"
    /\ UNCHANGED fnFrame

SpecVerdict == InitVerdict /\ [][ApplyVerdict]_vars

\* --- query with deterministic services -------------------------------------
\* The expansion model, the index and the grading model answer the same
\* call with the same outcome.  sv.expansion is the outcome of the expansion
\* call for the question, sv.index the outcome of a similarity search as a
\* function of the query (its place among the expanded queries) and of
\* whether the filter is passed, sv.grade the outcome of the grading call as
\* a function of the chunk.
DetIndexOutcomes == {IndexErr,
                     [st |-> "ok", docs |-> <<>>],
                     [st |-> "ok", docs |-> <<1>>],
                     [st |-> "ok", docs |-> <<4, 1>>]}

DetExpansions ==
    {ExpansionErr,
     [st |-> "ok", lines |-> << <<"m","a","r","g","i","n"," ","r","u","l","e","s">> >>]}

\* the searches retrieve can make for question q after expansion e
DetSearchKeys(q, e) ==
    (1..Len(generate_multi_queries(q, e)))
    \X (IF FilterActive(build_metadata_filter(q)) THEN {"filtered", "plain"} ELSE {"plain"})

DetServices(q) ==
    UNION {[expansion : {e},
            index : [DetSearchKeys(q, e) -> DetIndexOutcomes],
            grade : [{1, 4} -> QueryGradeOutcomes],
            generate : {[st |-> "ok", text |-> <<"The fee is prescribed by the circular.">>]},
            ground : {GroundErr, [st |-> "ok", text |-> GroundedWord]}] :
           e \in DetExpansions}

\* the outcomes of the index calls the loop makes for its i-th query
DetCalls(mf, i, index) ==
    LET o1 == index[<<i, IF FilterActive(mf) THEN "filtered" ELSE "plain">>]
        o2 == IF NeedsSecond(mf, o1) THEN index[<<i, "plain">>] ELSE NoCall
        o3 == IF NeedsThird(mf, o1, o2) THEN index[<<i, "plain">>] ELSE NoCall
    IN [o1 |-> o1, o2 |-> o2, o3 |-> o3]

\* what the external calls of one retrieve call answer
DetRetrieveAnswers(q, sv) ==
    LET mf == build_metadata_filter(q)
    IN [expansion |-> sv.expansion,
        searches |-> [i \in 1..Len(generate_multi_queries(q, sv.expansion)) |->
                         DetCalls(mf, i, sv.index)],
        glossary |-> [st |-> "ok", docs |-> <<>>]]

\* what the grading calls of one grade_relevance call answer
DetGradeAnswers(docs, sv) == [i \in 1..Len(docs) |-> sv.grade[docs[i]]]

\* the answers the calls of query receive, in the order made: the second
\* retrieve and the second grading are answered as the first
DetAnswers(q, sv, store) ==
    LET a1 == DetRetrieveAnswers(q, sv)
        r1 == RetrieveOnce(q, a1, store)
        a2 == DetGradeAnswers(r1.child_docs, sv)
        retried == /\ r1.child_docs # <<>>
                   /\ ShouldRetry(grade_relevance(r1.child_docs, a2), r1)
    IN <<a1, a2>> \o (IF retried THEN <<a1, a2>> ELSE <<>>) \o <<sv.generate, sv.ground>>

InitDeterministic ==
    /\ pc = "call_query_det"
    /\ \E q \in ConcQuestions :
         \E sv \in DetServices(q) : arg = [question |-> q, services |-> sv]
    /\ NotRunning

ApplyDeterministic ==
    /\ pc = "call_query_det"
    /\ \E answers \in {DetAnswers(arg.question, arg.services, WideParentStore)} :
         ret' = [answers |-> answers,
                 query |-> QueryAlone(arg.question, answers, WideParentStore)]
    /\ pc' = "returned"
    /\ UNCHANGED fnFrame

SpecDeterministic == InitDeterministic /\ [][ApplyDeterministic]_vars

\* --- process_all_documents ---------------------------------------------------
\* the loop over the documents; out is [all_parents, all_children, drawn,
\* per_doc], per_doc keeping the (parents, children) each call returned
RECURSIVE DocumentLoop(_, _)
DocumentLoop(all_documents, out) ==
    IF all_documents = <<>> THEN out
    ELSE LET made == create_parent_child_chunks(Head(all_documents), out.drawn)
         IN DocumentLoop(Tail(all_documents),
                         [all_parents |-> out.all_parents \o made.parents,
                          all_children |-> out.all_children \o made.children,
                          drawn |-> made.drawn,
                          per_doc |-> Append(out.per_doc,
                                             [parents |-> made.parents,
                                              children |-> made.children])])

\* {p["id"]: p["text"] for p in all_parents}: a later parent of the same id
\* replaces an earlier one
ParentStoreOf(all_parents) ==
    [id \in {all_parents[i].id : i \in 1..Len(all_parents)} |->
        LET at == {i \in 1..Len(all_parents) : all_parents[i].id = id}
        IN all_parents[CHOOSE i \in at : \A j \in at : j <= i].text]

\* (all_parents, all_children), the parent store written to disk, and the
\* results of the calls made for the documents
process_all_documents(all_documents) ==
    LET out == DocumentLoop(all_documents,
                            [all_parents |-> <<>>, all_children |-> <<>>,
                             drawn |-> 0, per_doc |-> <<>>])
    IN [all_parents |-> out.all_parents,
        all_children |-> out.all_children,
        parent_store |-> ParentStoreOf(out.all_parents),
        per_doc |-> out.per_doc]

\* self.parent_store.get(pid, "")
parent_store_get(store, pid) == IF pid \in DOMAIN store THEN store[pid] ELSE <<>>

\* full texts of ingested documents: empty, blank, of one parent, of several
\* parents, with sentence, paragraph and page separators, and without any
BuildTexts ==
    {<<>>,
     <<" ", " ">>,
     <<"a">>,
     <<"a", "a", " ", "a">>,
     <<"a", "a", " ", "a", "a", " ", "a", "a">>,
     <<"a", "a", "a", " ", "a", "a", "a", " ", "a", "a", "a">>,
     <<"a", ".", " ", "a", ".", " ", "a", ".", " ", "a", ".">>,
     <<"a", "\n", "\n", "a", " ", "a", "\n", "\n", "[", "a", " ", "a">>,
     <<"a", "a", "a", "a", "a", "a", "a", "a", "a", "a">>,
     <<"a", " ", "a", " ", "a", " ", "a", " ", "a", " ", "a", " ", "a">>}

BuildInputs == UNION {[1..n -> BuildTexts] : n \in 0..BuildDocs}

InitBuild ==
    /\ pc = "call_process_all"
    /\ arg \in BuildInputs
    /\ NotRunning

ApplyBuild ==
    /\ pc = "call_process_all"
    /\ ret' = process_all_documents(arg)
    /\ pc' = "returned"
    /\ UNCHANGED fnFrame

SpecBuild == InitBuild /\ [][ApplyBuild]_vars

\* ========================================================================
\* Claims
\* ========================================================================
Confidences == {"high", "medium", "low", "no_results"}
Returned == pc = "done"

\* C1 (as stated): for every combination of failures of the external calls,
\* query returns a result and never propagates an exception.
C1_QueryNeverRaises == pc # "raised"

\* C1 (amended): an exception leaves query only from the answer-generation
\* call (made, failed, nothing after it ran); a failure of expansion, index
\* search, glossary search, grading or the grounding check never does, and a
\* query that returns hands back a result with a confidence of the four.
C1_RaisesOnlyFromGeneration ==
    /\ pc = "raised" =>
         /\ calls.generate = 1
         /\ calls.ground = 0
         /\ generated = <<>>
         /\ result = NoResult
    /\ Returned => result.confidence \in Confidences

\* a result was returned although the grounding call failed and the
\* expansion gave nothing
C1_Witness ==
    /\ Returned
    /\ ground_out.st = "err"
    /\ result.queries_used = <<question>>
    /\ result.confidence = "medium"

\* C2: when the initial retrieval yields zero child chunks, query returns
\* confidence no_results, no sources, num_relevant = num_retrieved = 0, and
\* has made one retrieve call and no grading, generation or grounding call;
\* nothing runs after the return.
ZeroRetrieved == pc = "grade" /\ phase = "initial" /\ retrieval.child_docs = <<>>

C2_NoEvidencePath ==
    [][/\ pc \notin {"done", "raised"}
       /\ ZeroRetrieved =>
            /\ pc' = "done"
            /\ result'.confidence = "no_results"
            /\ result'.sources = <<>>
            /\ result'.num_relevant = 0
            /\ result'.num_retrieved = 0
            /\ calls' = [retrieve |-> 1, grade |-> 0, generate |-> 0, ground |-> 0]]_vars

C2_Witness ==
    /\ Returned
    /\ result.confidence = "no_results"
    /\ calls = [retrieve |-> 1, grade |-> 0, generate |-> 0, ground |-> 0]

\* C3: with a filter built and no failing index call, the list one query
\* contributes is the filtered result when it has at least 2 hits, and
\* otherwise exactly the result of the unfiltered re-issue; so an empty
\* filtered result never empties the contribution when the unfiltered
\* search has hits.
NoIndexCallFailed == arg.o1.st # "err" /\ arg.o2.st # "err" /\ arg.o3.st # "err"

C3_FilterFallback ==
    (pc = "returned" /\ arg.mf.op # "none" /\ NoIndexCallFailed) =>
        /\ Len(ret) = 1
        /\ Len(arg.o1.docs) >= 2 => (ret[1] = arg.o1.docs /\ arg.o2.st = "nocall")
        /\ Len(arg.o1.docs) < 2 => (arg.o2.st = "ok" /\ ret[1] = arg.o2.docs)
        /\ (arg.o1.docs = <<>> /\ arg.o2.docs # <<>>) => ret[1] # <<>>

\* one filtered hit, two unfiltered hits: the two unfiltered hits are used
C3_Witness ==
    /\ pc = "returned"
    /\ arg.mf.op # "none"
    /\ NoIndexCallFailed
    /\ Len(arg.o1.docs) = 1
    /\ Len(arg.o2.docs) = 2
    /\ ret = <<arg.o2.docs>>

\* the responses of the grading model that say "relevant"
SaysRelevant == {<<"r","e","l","e","v","a","n","t">>,
                 <<"R","e","l","e","v","a","n","t">>}

\* chunk i of the graded list is kept: its call failed or answered relevant
Kept(i) == arg.outcomes[i].st = "err" \/ arg.outcomes[i].text \in SaysRelevant

KeptIndexes == {i \in 1..Len(arg.docs) : Kept(i)}

\* C4: for a non-empty list of chunks grade_relevance returns a non-empty
\* list, and the full input list when no chunk is classified relevant.
C4_NeverEmpty ==
    (pc = "returned" /\ arg.docs # <<>>) =>
        /\ ret # <<>>
        /\ KeptIndexes = {} => ret = arg.docs

C4_Witness ==
    /\ pc = "returned"
    /\ Len(arg.docs) >= 2
    /\ KeptIndexes = {}
    /\ ret = arg.docs

\* C5: fail-open applies per chunk: when at least one chunk is kept, the
\* result is exactly the kept chunks (failed call or relevant answer) in
\* input order, so a chunk graded not relevant stays excluded next to a
\* failure; when every call fails the result is the input, unchanged.
C5_FailOpenPerChunk ==
    pc = "returned" =>
        /\ KeptIndexes # {} =>
             /\ Len(ret) = Cardinality(KeptIndexes)
             /\ \A i \in KeptIndexes : \E n \in 1..Len(ret) : ret[n] = arg.docs[i]
             /\ \A m, n \in 1..Len(ret) : m < n =>
                  \E i, j \in KeptIndexes : i < j /\ ret[m] = arg.docs[i] /\ ret[n] = arg.docs[j]
        /\ (\A i \in 1..Len(arg.docs) : arg.outcomes[i].st = "err") => ret = arg.docs

\* one call fails, another answers not_relevant: the first chunk is kept,
\* the second is not
C5_Witness ==
    /\ pc = "returned"
    /\ \E i, j \in 1..Len(arg.docs) :
         /\ arg.outcomes[i].st = "err"
         /\ arg.outcomes[j].st = "ok" /\ arg.outcomes[j].text \notin SaysRelevant
         /\ arg.docs[i] \in Range(ret)
         /\ arg.docs[j] \notin Range(ret)

\* C6: query calls retrieve a second time if and only if the relevant set of
\* the initial grading (fail-safe applied) has fewer than 2 chunks and the
\* initial retrieval built a filter.  While the retry runs, relevant_docs and
\* retrieval still are those of the initial pass.
RetryCondition == Len(relevant_docs) < 2 /\ retrieval.metadata_filter.op # "none"

C6_RetryIff ==
    /\ (phase = "retry" /\ pc \in {"retrieve", "search", "grade"}) => RetryCondition
    /\ (pc = "generate" /\ calls.retrieve = 1) => ~RetryCondition
    /\ (phase = "retry" /\ pc # "retrieve") => calls.retrieve = 2
    /\ calls.retrieve = 2 => (phase = "retry" \/ pc \in {"done", "raised"})

C6_Witness ==
    /\ pc = "search"
    /\ phase = "retry"
    /\ calls.retrieve = 2
    /\ Len(retrieval.child_docs) = 2
    /\ Len(relevant_docs) = 1

\* C7: retrieve is invoked at most twice; after the retry pass query goes on
\* to answer generation whatever the retry returned.
C7_SingleRetry ==
    /\ calls.retrieve <= 2
    /\ (calls.retrieve = 2 /\ pc \in {"done", "raised"}) => calls.generate = 1
    /\ (phase = "retry" /\ pc \notin {"retrieve", "search", "grade"}) =>
           pc \in {"generate", "ground"}

\* a retry that retrieved nothing (the merged context ends with the
\* separator) and left one relevant chunk has gone on to generation
C7_Witness ==
    /\ pc = "ground"
    /\ calls.retrieve = 2
    /\ calls.generate = 1
    /\ Len(relevant_docs) = 1
    /\ retrieval.child_context[Len(retrieval.child_context)] = Sep

\* C8: the returned answer is the generated answer followed by the caveat
\* exactly when the verdict is not_grounded (confidence low); for every
\* other verdict, unknown after a failed grounding call included, it is the
\* generated answer.
Grounded == Returned /\ calls.ground = 1

C8_CaveatIffNotGrounded ==
    Grounded =>
        /\ result.answer = generated \o CaveatSuffix
             <=> result.hallucination_check = "not_grounded"
        /\ result.hallucination_check = "not_grounded" => result.confidence = "low"
        /\ result.hallucination_check # "not_grounded" => result.answer = generated
        /\ ground_out.st = "err" =>
             (result.hallucination_check = "unknown" /\ result.answer = generated)

C8_Witness ==
    /\ Grounded
    /\ result.hallucination_check = "not_grounded"
    /\ result.answer = generated \o CaveatSuffix
    /\ result.confidence = "low"

\* C9: the confidence is a function of the verdict alone: grounded high,
\* partial medium, not_grounded low, unknown medium; a failed grounding call
\* gives the verdict unknown.
ConfidenceTable == [grounded |-> "high", partial |-> "medium",
                    not_grounded |-> "low", unknown |-> "medium"]

C9_ConfidenceFromVerdict ==
    Grounded =>
        /\ result.hallucination_check \in DOMAIN ConfidenceTable
        /\ result.confidence = ConfidenceTable[result.hallucination_check]
        /\ ground_out.st = "err" => result.hallucination_check = "unknown"

C9_Witness ==
    /\ Grounded
    /\ ground_out.st = "err"
    /\ result.hallucination_check = "unknown"
    /\ result.confidence = "medium"

\* the accumulated score of chunk c over the lists of arg, and the place of
\* its first appearance when the lists are scanned in order
RECURSIVE ScoreIn(_, _)
ScoreIn(c, lists) ==
    IF lists = <<>> THEN 0
    ELSE (IF \E i \in 1..Len(Head(lists)) : Head(lists)[i] = c
          THEN RRFScale \div ((CHOOSE i \in 1..Len(Head(lists)) : Head(lists)[i] = c) - 1 + RRF_K)
          ELSE 0)
         + ScoreIn(c, Tail(lists))

FusedChunks == UNION {Range(arg[l]) : l \in 1..Len(arg)}

FirstSeen(c) ==
    LET l == CHOOSE l \in 1..Len(arg) :
               c \in Range(arg[l]) /\ \A k \in 1..(l - 1) : c \notin Range(arg[k])
    IN <<l, CHOOSE i \in 1..Len(arg[l]) : arg[l][i] = c>>

RankedBefore(a, b) ==
    \/ ScoreIn(a, arg) > ScoreIn(b, arg)
    \/ /\ ScoreIn(a, arg) = ScoreIn(b, arg)
       /\ \/ FirstSeen(a)[1] < FirstSeen(b)[1]
          \/ FirstSeen(a)[1] = FirstSeen(b)[1] /\ FirstSeen(a)[2] < FirstSeen(b)[2]

\* C10: the child chunks retrieve returns are the first TOP_K entries of the
\* ranking of all distinct chunks of the lists by score descending, equal
\* scores in order of first appearance; at most TOP_K chunks, none twice.
C10_FusedTopK ==
    pc = "returned" =>
        /\ Len(ret) = Min(TOP_K, Cardinality(FusedChunks))
        /\ Range(ret) \subseteq FusedChunks
        /\ \A i, j \in 1..Len(ret) : i < j => RankedBefore(ret[i], ret[j])
        /\ \A c \in FusedChunks \ Range(ret) :
             \A i \in 1..Len(ret) : RankedBefore(ret[i], c)

\* more than TOP_K distinct chunks, two of the returned ones with equal score
C10_Witness ==
    /\ pc = "returned"
    /\ Cardinality(FusedChunks) > TOP_K
    /\ Len(ret) = TOP_K
    /\ \E i, j \in 1..Len(ret) :
         i < j /\ ScoreIn(ret[i], arg) = ScoreIn(ret[j], arg)
    /\ \E i, j \in 1..Len(ret) :
         i < j /\ FirstSeen(ret[j])[1] < FirstSeen(ret[i])[1]

\* the places <<l, i>> at which chunk c occurs in the lists of arg
Occurrences(c) ==
    {o \in UNION {{<<l, i>> : i \in 1..Len(arg[l])} : l \in 1..Len(arg)} :
        arg[o[1]][o[2]] = c}

\* the sum over a set of places of 1/(r + RRF_K), r the zero-based rank of
\* the place, in units of 1/RRFScale
RECURSIVE SumReciprocals(_)
SumReciprocals(places) ==
    IF places = {} THEN 0
    ELSE LET o == CHOOSE o \in places : TRUE
         IN RRFScale \div ((o[2] - 1) + RRF_K) + SumReciprocals(places \ {o})

\* the dict `fused` that reciprocal_rank_fusion has built from arg
FusedScore == FuseAll(<< <<>>, <<>> >>, arg, RRF_K)[2]

\* C11: the score a chunk is ranked by is the sum over its occurrences, at
\* zero-based rank r, of 1/(r + K), K = 60: one term for a chunk of one list,
\* two terms for a chunk of two lists; the units of 1/RRFScale are exact.
C11_ScoreFormula ==
    pc = "returned" =>
        /\ \A r \in 0..(TOP_K - 1) : RRFScale % (r + RRF_K) = 0
        /\ RRF_K = 60
        /\ \A score \in {FusedScore} :
             /\ DOMAIN score = {dumps(c) : c \in FusedChunks}
             /\ \A c \in FusedChunks : score[dumps(c)] = SumReciprocals(Occurrences(c))
             /\ \A i, j \in 1..Len(ret) :
                  i < j => score[dumps(ret[i])] >= score[dumps(ret[j])]

\* a chunk at rank 0 of one list and rank 1 of another: 1/60 + 1/61
C11_Witness ==
    /\ pc = "returned"
    /\ \E c \in FusedChunks :
         /\ {o[2] : o \in Occurrences(c)} = {1, 2}
         /\ Cardinality(Occurrences(c)) = 2
         /\ FusedScore[dumps(c)] = RRFScale \div 60 + RRFScale \div 61
    /\ \E c \in FusedChunks :
         /\ Cardinality(Occurrences(c)) = 1
         /\ FusedScore[dumps(c)] = RRFScale \div 61

\* the lists of arg joined in another order: as they are, or two neighbouring
\* lists exchanged.  Every sequence of lists is an input of SpecFusion, so
\* every other order of the same lists is reached from these by a chain of
\* such exchanges, each one checked on the input it starts from.
ListOrders ==
    {[i \in 1..Len(arg) |-> i]} \cup
    {[i \in 1..Len(arg) |-> IF i = k THEN k + 1 ELSE IF i = k + 1 THEN k ELSE i] :
        k \in 1..(Len(arg) - 1)}

Reordered(p) == [i \in 1..Len(arg) |-> arg[p[i]]]

\* the place of the first appearance of chunk c in the sequence of lists
FirstSeenIn(c, lists) ==
    LET l == CHOOSE l \in 1..Len(lists) :
               c \in Range(lists[l]) /\ \A k \in 1..(l - 1) : c \notin Range(lists[k])
    IN <<l, CHOOSE i \in 1..Len(lists[l]) : lists[l][i] = c>>

EarlierIn(a, b, lists) ==
    \/ FirstSeenIn(a, lists)[1] < FirstSeenIn(b, lists)[1]
    \/ /\ FirstSeenIn(a, lists)[1] = FirstSeenIn(b, lists)[1]
       /\ FirstSeenIn(a, lists)[2] < FirstSeenIn(b, lists)[2]

\* C12 (as stated): for every order of the same input lists the fusion
\* returns the identical ranking, and retrieve the identical top-K chunks.
C12_OrderIndependent ==
    pc = "returned" =>
        \A p \in ListOrders :
            /\ reciprocal_rank_fusion(Reordered(p), RRF_K) = reciprocal_rank_fusion(arg, RRF_K)
            /\ FusedDocs(Reordered(p)) = ret

\* C12 (amended): for every order of the same input lists the fusion ranks
\* the same chunks with the same scores, and two chunks of different score
\* come in the same order; two chunks of equal score come in the order of
\* their first appearance in the lists as joined, which the order of the
\* lists decides, and the top-K cut is taken from that ranking.
C12_OrderIndependentUpToTies ==
    pc = "returned" =>
        \A score \in {FusedScore}, p \in ListOrders :
            \A lists \in {Reordered(p)} :
              \A ranking \in {reciprocal_rank_fusion(lists, RRF_K)} :
                /\ FuseAll(<< <<>>, <<>> >>, lists, RRF_K)[2] = score
                /\ Range(ranking) = FusedChunks
                /\ Len(ranking) = Cardinality(FusedChunks)
                /\ \A i, j \in 1..Len(ranking) :
                     i < j =>
                        \/ score[dumps(ranking[i])] > score[dumps(ranking[j])]
                        \/ /\ score[dumps(ranking[i])] = score[dumps(ranking[j])]
                           /\ EarlierIn(ranking[i], ranking[j], lists)
                /\ FusedDocs(lists) = Take(ranking, TOP_K)

\* two orders of the same lists whose rankings differ, and whose top-K
\* differ, while two of the chunks have different scores
C12_Witness ==
    /\ pc = "returned"
    /\ \E p \in ListOrders :
         /\ reciprocal_rank_fusion(Reordered(p), RRF_K) # reciprocal_rank_fusion(arg, RRF_K)
         /\ Range(FusedDocs(Reordered(p))) # Range(ret)
    /\ \E a, b \in FusedChunks : FusedScore[dumps(a)] > FusedScore[dumps(b)]

\* the index calls made for the i-th query of arg.outs, in the order made
CallsOf(i) ==
    SelectSeq(<<arg.outs[i].o1, arg.outs[i].o2, arg.outs[i].o3>>,
              LAMBDA o : o.st # "nocall")

SomeCallFailed(i) == \E n \in 1..Len(CallsOf(i)) : CallsOf(i)[n].st = "err"

LastCall(i) == CallsOf(i)[Len(CallsOf(i))]

RECURSIVE Concat(_)
Concat(parts) == IF parts = <<>> THEN <<>> ELSE Head(parts) \o Concat(Tail(parts))

\* C13 (as stated): a query for which an index call raises contributes no
\* list, every other query contributes its list.
C13_FailedCallDropsQuery ==
    pc = "returned" =>
        ret = Concat([i \in 1..Len(arg.outs) |->
                        IF SomeCallFailed(i) THEN <<>> ELSE <<LastCall(i).docs>>])

\* C13 (amended): after a failed index call the query is searched once more,
\* unfiltered; it contributes that result when the attempt succeeds and no
\* list only when that attempt fails too.  Whatever one query's calls do,
\* every query is searched and the lists of the others are contributed, in
\* query order.
C13_DroppedOnlyAfterFailedRetry ==
    pc = "returned" =>
        /\ ret = Concat([i \in 1..Len(arg.outs) |->
                           IF LastCall(i).st = "ok" THEN <<LastCall(i).docs>> ELSE <<>>])
        /\ \A i \in 1..Len(arg.outs) :
             /\ Len(CallsOf(i)) >= 1
             /\ SomeCallFailed(i) => Len(CallsOf(i)) >= 2
             /\ LastCall(i).st = "err" => CallsOf(i)[Len(CallsOf(i)) - 1].st = "err"

\* the first query fails twice and is dropped, the second fails once and
\* contributes the hits of its second attempt
C13_Witness ==
    /\ pc = "returned"
    /\ Len(arg.outs) = 2
    /\ arg.outs[1].o1.st = "err" /\ arg.outs[1].o2.st = "err"
    /\ arg.outs[2].o1.st = "err" /\ arg.outs[2].o2.st = "ok"
    /\ arg.outs[2].o2.docs # <<>>
    /\ ret = <<arg.outs[2].o2.docs>>

\* every index call of the retrieve call that ran last has failed
AllIndexCallsFailed == pc \notin {"retrieve", "search"} /\ ~index_ok

\* C14: if every index call fails for every expanded query, retrieve returns
\* an empty child-chunk list and does not raise, and query, when this was
\* its initial retrieval, returns the no-results dict without grading,
\* generating or checking anything.
C14_TotalSearchFailure ==
    /\ (pc = "grade" /\ AllIndexCallsFailed) => DocsToGrade = <<>>
    /\ (AllIndexCallsFailed /\ calls.retrieve = 1) =>
          /\ pc \in {"grade", "done"}
          /\ pc = "done" =>
               /\ result.confidence = "no_results"
               /\ result.answer = NotFoundAnswer
               /\ result.sources = <<>>
               /\ result.num_retrieved = 0
               /\ calls.generate = 0

\* two expanded queries, every index call failed: the no-results dict
C14_Witness ==
    /\ Returned
    /\ AllIndexCallsFailed
    /\ calls.retrieve = 1
    /\ Len(result.queries_used) = 2
    /\ question = <<"R","E","I","T"," ","r","u","l","e","s">>
    /\ result.confidence = "no_results"

\* a line with a character that is not white space, and what it is trimmed to
NonBlank(line) == \E i \in 1..Len(line) : line[i] \notin {" ", "\t", "\n"}

Trimmed(line) ==
    LET inked == {i \in 1..Len(line) : line[i] \notin {" ", "\t", "\n"}}
        first == CHOOSE i \in inked : \A j \in inked : i <= j
        last == CHOOSE i \in inked : \A j \in inked : j <= i
    IN SubSeq(line, first, last)

\* the non-empty trimmed lines of the response of arg, in order
AlternateQueries ==
    LET kept == SelectSeq(arg.outcome.lines, NonBlank)
    IN [i \in 1..Len(kept) |-> Trimmed(kept[i])]

\* C15: generate_multi_queries always returns (it has no raising outcome) a
\* sequence that starts with the question and has 1 to MULTI_QUERY_COUNT + 1
\* elements; the others are the first at most MULTI_QUERY_COUNT non-empty
\* trimmed lines of the response, in order; a failed call gives [question].
C15_ExpansionShape ==
    pc = "returned" =>
        /\ Len(ret) \in 1..(MULTI_QUERY_COUNT + 1)
        /\ ret[1] = arg.question
        /\ arg.outcome.st = "ok" =>
             /\ Len(ret) = 1 + Min(MULTI_QUERY_COUNT, Len(AlternateQueries))
             /\ \A i \in 2..Len(ret) : ret[i] = AlternateQueries[i - 1]
        /\ arg.outcome.st = "err" => ret = <<arg.question>>

\* a response with more than MULTI_QUERY_COUNT usable lines, one of them
\* padded, and a blank line among the first: the result is cut
C15_Witness ==
    /\ pc = "returned"
    /\ arg.outcome.st = "ok"
    /\ Len(AlternateQueries) > MULTI_QUERY_COUNT
    /\ ~NonBlank(arg.outcome.lines[2])
    /\ Len(ret) = MULTI_QUERY_COUNT + 1
    /\ ret[2] = <<"b", " ", "c">>

AudienceMutualFunds == [field |-> "audience", value |-> "Mutual Funds"]
StatusActive == [field |-> "status", value |-> "ACTIVE"]
IsLatest == [field |-> "is_latest", value |-> "True"]

\* C16 (as stated): for "Are there any active circulars for Mutual Funds?"
\* the filter is exactly the single clause audience = Mutual Funds.
C16_AudienceClauseOnly ==
    (pc = "returned" /\ arg.question = ActiveCircularsQuestion) =>
        ret = [op |-> "clause", clauses |-> <<AudienceMutualFunds>>]

\* C16 (amended): for that question, which holds the currency word "active",
\* the filter is the AND of audience = Mutual Funds and status = ACTIVE.
C16_AudienceAndStatus ==
    (pc = "returned" /\ arg.question = ActiveCircularsQuestion) =>
        ret = [op |-> "and", clauses |-> <<AudienceMutualFunds, StatusActive>>]

C16_Witness ==
    /\ pc = "returned"
    /\ arg.question = ActiveCircularsQuestion
    /\ ret.op = "and"
    /\ Len(ret.clauses) = 2
    /\ ret.clauses[2] = StatusActive

\* the lowercased question of arg, and the words looked for in it
AskedLower == Lower(arg.question)

KeywordsFound == {i \in 1..Len(audience_map) : Contains(audience_map[i].kw, AskedLower)}

RecencyAsked ==
    \E w \in {<<"l","a","t","e","s","t">>,
              <<"c","u","r","r","e","n","t">>,
              <<"m","o","s","t"," ","r","e","c","e","n","t">>,
              <<"n","e","w","e","s","t">>} : Contains(w, AskedLower)

CurrencyAsked ==
    \E w \in {<<"a","c","t","i","v","e">>,
              <<"i","n"," ","f","o","r","c","e">>,
              <<"i","n"," ","e","f","f","e","c","t">>} : Contains(w, AskedLower)

ClausesOf(field) == {i \in 1..Len(ret.clauses) : ret.clauses[i].field = field}

\* C17: the filter holds, in this order, at most one audience clause (that of
\* the first keyword of the table found in the lowercased question), the
\* clause is_latest = true iff a recency word occurs and the clause
\* status = ACTIVE iff a currency word occurs, and nothing else; it is no
\* filter for no clause, the bare clause for one, their AND otherwise.
C17_FilterClauses ==
    pc = "returned" =>
        /\ Cardinality(ClausesOf("audience")) = (IF KeywordsFound = {} THEN 0 ELSE 1)
        /\ \A i \in ClausesOf("audience") :
             /\ i = 1
             /\ \E k \in KeywordsFound :
                  /\ \A j \in KeywordsFound : k <= j
                  /\ ret.clauses[i].value = audience_map[k].aud
        /\ Cardinality(ClausesOf("is_latest")) = (IF RecencyAsked THEN 1 ELSE 0)
        /\ Cardinality(ClausesOf("status")) = (IF CurrencyAsked THEN 1 ELSE 0)
        /\ \A i \in ClausesOf("is_latest") : ret.clauses[i] = IsLatest
        /\ \A i \in ClausesOf("status") : ret.clauses[i] = StatusActive /\ i = Len(ret.clauses)
        /\ \A i \in 1..Len(ret.clauses) :
             ret.clauses[i].field \in {"audience", "is_latest", "status"}
        /\ ret.op = (IF Len(ret.clauses) = 0 THEN "none"
                     ELSE IF Len(ret.clauses) = 1 THEN "clause" ELSE "and")

\* "reit" comes first in the question, "mutual fund" first in the table; a
\* recency and a currency word occur as well: the AND of three clauses
C17_Witness ==
    /\ pc = "returned"
    /\ {2, 13} \subseteq KeywordsFound
    /\ RecencyAsked
    /\ CurrencyAsked
    /\ ret = [op |-> "and", clauses |-> <<AudienceMutualFunds, IsLatest, StatusActive>>]

\* the positions of the circulars that share the subject of circular i
SameSubject(i) ==
    {j \in 1..Len(ret) : ret[j].subject_normalized = ret[i].subject_normalized}

\* C18: in every group of circulars of one normalized subject exactly one is
\* ACTIVE and is_latest, all others are SUPERSEDED and not is_latest; the
\* ACTIVE one has the greatest date of its group and is, among those of that
\* date, the earliest of the input.
C18_OneActivePerSubject ==
    pc = "returned" =>
        /\ Len(ret) = Len(arg)
        /\ \A i \in 1..Len(ret) :
             /\ ret[i].filename = arg[i].filename
             /\ ret[i].subject_normalized = arg[i].subject_normalized
             /\ ret[i].date_parsed = arg[i].date_parsed
             /\ ret[i].status \in {"ACTIVE", "SUPERSEDED"}
             /\ ret[i].is_latest <=> ret[i].status = "ACTIVE"
             /\ Cardinality({j \in SameSubject(i) : ret[j].status = "ACTIVE"}) = 1
             /\ ret[i].status = "ACTIVE" =>
                  \A j \in SameSubject(i) :
                      /\ ret[j].date_parsed <= ret[i].date_parsed
                      /\ ret[j].date_parsed = ret[i].date_parsed => i <= j

\* three circulars of one subject, the later two tied for the greatest date:
\* the second of the input is ACTIVE
C18_Witness ==
    /\ pc = "returned"
    /\ Len(ret) = 3
    /\ SameSubject(1) = {1, 2, 3}
    /\ ret[1].date_parsed < ret[2].date_parsed
    /\ ret[2].date_parsed = ret[3].date_parsed
    /\ ret[2].status = "ACTIVE" /\ ret[2].is_latest
    /\ ret[1].status = "SUPERSEDED" /\ ret[3].status = "SUPERSEDED"

\* the place in the relevant set of the first chunk of source document src
FirstOfSource(src) ==
    CHOOSE i \in 1..Len(arg) :
        SourceOf(arg[i]) = src /\ \A j \in 1..(i - 1) : SourceOf(arg[j]) # src

\* C19: the sources hold exactly one record per source document of the
\* relevant chunks, in the order in which the documents first occur in the
\* relevant set, each with the section, date, audience, status and pages of
\* the first chunk of its document.
C19_SourcesDeduplicated ==
    pc = "returned" =>
        /\ {ret[i].file : i \in 1..Len(ret)} = {SourceOf(c) : c \in Range(arg)}
        /\ Len(ret) = Cardinality({SourceOf(c) : c \in Range(arg)})
        /\ \A i \in 1..Len(ret) : ret[i].chunk = arg[FirstOfSource(ret[i].file)]
        /\ \A i, j \in 1..Len(ret) :
             i < j => FirstOfSource(ret[i].file) < FirstOfSource(ret[j].file)

\* three chunks of two documents; the document met first is the later one
\* of the corpus, and its second chunk comes before its first
C19_Witness ==
    /\ pc = "returned"
    /\ Len(arg) = 3
    /\ Len(ret) = 2
    /\ ret[1].file > ret[2].file
    /\ SourceOf(arg[3]) = SourceOf(arg[2])
    /\ arg[3] < arg[2]
    /\ ret[2].chunk = arg[2]

\* the parent texts of the block handed to generation, in order
ParentTextsPassed == SelectSeq(ret, LAMBDA b : b.kind = "parent")

\* the first three distinct parents met walking `children` in rank order
FirstThreeParents(children) ==
    LET places == SelectSeq([i \in 1..Len(children) |-> i],
                            LAMBDA i : \A j \in 1..(i - 1) :
                                          ParentOf(children[j]) # ParentOf(children[i]))
    IN [n \in 1..Min(3, Len(places)) |-> ParentText(ParentOf(children[places[n]]))]

NoParentTwice(texts) == \A i, j \in 1..Len(texts) : texts[i] = texts[j] => i = j

\* C20 (as stated): in every execution, a merged retry included, the parent
\* block handed to generation holds at most 3 parent texts, none twice: the
\* first distinct parents of the fused children in rank order.
C20_AtMostThreeParents ==
    pc = "returned" =>
        /\ Len(ParentTextsPassed) <= 3
        /\ NoParentTwice(ParentTextsPassed)
        /\ ParentTextsPassed = FirstThreeParents(arg.first)

\* C20 (amended): the parent block of one retrieve call holds at most 3
\* parent texts, none twice, the first distinct parents of its fused
\* children in rank order; this is the block handed to generation when no
\* retry was merged.  A merged retry appends its own such block behind a
\* separator: up to 6 parent texts, a parent of both passes twice.
C20_ThreeParentsPerRetrieve ==
    pc = "returned" =>
        /\ Len(FirstThreeParents(arg.first)) <= 3
        /\ Len(FirstThreeParents(arg.second)) <= 3
        /\ NoParentTwice(FirstThreeParents(arg.first))
        /\ NoParentTwice(FirstThreeParents(arg.second))
        /\ ~arg.retried => ret = Join(FirstThreeParents(arg.first), Sep)
        /\ arg.retried =>
             /\ ret = Join(FirstThreeParents(arg.first), Sep) \o <<Sep>>
                      \o Join(FirstThreeParents(arg.second), Sep)
             /\ ParentTextsPassed =
                    FirstThreeParents(arg.first) \o FirstThreeParents(arg.second)
             /\ Len(ParentTextsPassed) <= 6

\* both passes fused four children of four parents: six parent texts are
\* handed to generation, the same three twice
C20_Witness ==
    /\ pc = "returned"
    /\ arg.retried
    /\ Cardinality({ParentOf(c) : c \in Range(arg.first)}) = 4
    /\ arg.second = arg.first
    /\ Len(ParentTextsPassed) = 6
    /\ ~NoParentTwice(ParentTextsPassed)

\* C21: for every interleaving of two query executions on the same chain
\* and retriever, each request returns (or raises) what query gives for its
\* own question and the answers its own external calls received, whatever
\* the other request did meanwhile; a request that has made no call yet
\* holds nothing of the other; and the parent store and the circular index
\* stay as loaded.
C21_RequestsIndependent ==
    /\ parent_store = BuiltParentStore
    /\ circular_index = BuiltCircularIndex
    /\ \A t \in Requests :
         /\ calls[t] = <<>> =>
              /\ retrieval[t] = NoRetrieval
              /\ retry[t] = NoRetrieval
              /\ relevant_docs[t] = <<>>
         /\ pc[t] = "done" =>
              QueryAlone(question[t], calls[t], BuiltParentStore)
                  = [st |-> "returned", result |-> result[t]]
         /\ pc[t] = "raised" =>
              QueryAlone(question[t], calls[t], BuiltParentStore).st = "raised"
         /\ pc[t] \notin {"done", "raised"} => result[t] = NoResult

\* request a has returned after a retry pass while request b, which the
\* index answered otherwise, is in the middle of its own retry pass
C21_Witness ==
    /\ pc["a"] = "done"
    /\ Len(calls["a"]) = 6
    /\ result["a"].confidence = "low"
    /\ pc["b"] = "regrade"
    /\ calls["a"][1] # calls["b"][1]
    /\ retry["b"].child_docs # <<>>

\* the parents of the returned chunks that carry the id a child refers to
ParentsOf(child) == {i \in 1..Len(ret.parents) : ret.parents[i].id = child.parent_id}

\* C22: for every child chunk produced by create_parent_child_chunks, the
\* child's text is a contiguous substring of the text of the parent whose
\* id it carries.
C22_ChildWithinParent ==
    pc = "returned" =>
        \A c \in 1..Len(ret.children) :
            /\ ParentsOf(ret.children[c]) # {}
            /\ \A p \in ParentsOf(ret.children[c]) :
                 Contains(ret.children[c].text, ret.parents[p].text)

\* a document of two parents, one of them split into children that are
\* shorter than it
C22_Witness ==
    /\ pc = "returned"
    /\ Len(ret.parents) >= 2
    /\ \E p \in 1..Len(ret.parents) :
         /\ Cardinality({c \in 1..Len(ret.children) :
                            ret.children[c].parent_id = ret.parents[p].id}) >= 2
         /\ \A c \in 1..Len(ret.children) :
              ret.children[c].parent_id = ret.parents[p].id
                  => ret.children[c].text # ret.parents[p].text

\* C23: every result returned by query has a confidence of the four;
\* confidence is no_results exactly when num_retrieved = 0, and that exactly
\* when the sources list is empty.
C23_NoResultsIffNothingRetrieved ==
    Returned =>
        /\ result.confidence \in Confidences
        /\ result.confidence = "no_results" <=> result.num_retrieved = 0
        /\ result.num_retrieved = 0 <=> result.sources = <<>>

\* two chunks retrieved, both graded not relevant in both passes: the result
\* names a source and is not no_results
C23_Witness ==
    /\ Returned
    /\ result.num_retrieved = 2
    /\ calls.retrieve = 2
    /\ calls.grade = 4
    /\ Len(result.sources) = 1
    /\ result.confidence = "high"

\* the second grade_relevance of query is about to return
RetryGraded == pc = "grade" /\ phase = "retry" /\ gi > Len(retry.child_docs)

\* what it returns: the chunks of the retry it kept, all of them when none
GradedOfRetry == IF relevant # <<>> THEN relevant ELSE retry.child_docs

\* C24: when query performs the retry pass, the final relevant set is the
\* initial relevant set, unchanged and in its order, followed by the chunks
\* grading returned for the retry whose child id does not occur in the
\* initial relevant set, in retry order; it holds no child id twice.
C24_RetryMerge ==
    [][RetryGraded =>
          /\ pc' = "generate"
          /\ relevant_docs' =
                relevant_docs
                \o SelectSeq(GradedOfRetry, LAMBDA c : c \notin Range(relevant_docs))
          /\ Cardinality(Range(relevant_docs')) = Len(relevant_docs')]_vars

\* the retry retrieved chunks 3 and 1 after an initial pass that retrieved
\* 1 and 2 and kept 1: chunk 3 was appended, chunk 1 was not added again
C24_Witness ==
    /\ pc = "generate"
    /\ calls.retrieve = 2
    /\ retrieval.child_docs = <<1, 2>>
    /\ retrieval.child_context =
          <<ChildBlock(1), Sep, ChildBlock(2), Sep, ChildBlock(3), Sep, ChildBlock(1)>>
    /\ relevant_docs = <<1, 3>>

\* the verdict by containment in strict priority
VerdictByContainment(text) ==
    IF Contains(NotGroundedWord, text) THEN "not_grounded"
    ELSE IF Contains(PartialWord, text) THEN "partial"
    ELSE IF Contains(GroundedWord, text) THEN "grounded"
    ELSE "unknown"

\* word occurs in text, letters compared without regard to case
ContainsAnyCase(word, text) ==
    \E i \in 1..(Len(text) - Len(word) + 1) :
        \A j \in 1..Len(word) : LowerChar(text[i + j - 1]) = word[j]

\* C25 (as stated): check_hallucination maps the model response to
\* not_grounded if the response contains 'not_grounded', else partial if it
\* contains 'partial', else grounded if it contains 'grounded', else
\* unknown; a response containing 'not_grounded' is never classified
\* grounded or partial.
C25_VerdictOfResponse ==
    (pc = "returned" /\ arg.st = "ok") =>
        /\ ret = VerdictByContainment(arg.text)
        /\ Contains(NotGroundedWord, arg.text) => ret \notin {"grounded", "partial"}

\* C25 (amended): the three words are looked for without regard to case, in
\* the priority not_grounded, partial, grounded: the verdict is not_grounded
\* exactly when the response contains that word in any case, partial exactly
\* when it contains partial and not not_grounded, grounded exactly when it
\* contains grounded and neither of the two, unknown otherwise and when the
\* call fails.
C25_VerdictOfLoweredResponse ==
    pc = "returned" =>
        IF arg.st = "ok"
        THEN LET ng == ContainsAnyCase(NotGroundedWord, arg.text)
                 pa == ContainsAnyCase(PartialWord, arg.text)
                 gr == ContainsAnyCase(GroundedWord, arg.text)
             IN /\ ret = "not_grounded" <=> ng
                /\ ret = "partial" <=> (pa /\ ~ng)
                /\ ret = "grounded" <=> (gr /\ ~pa /\ ~ng)
                /\ ret = "unknown" <=> (~gr /\ ~pa /\ ~ng)
        ELSE ret = "unknown"

\* "Not_Grounded partial": the response, as written, contains partial and
\* not not_grounded, and the verdict is not_grounded
C25_Witness ==
    /\ pc = "returned"
    /\ arg.st = "ok"
    /\ Contains(PartialWord, arg.text)
    /\ ~Contains(NotGroundedWord, arg.text)
    /\ ret = "not_grounded"

\* query has ended after it retrieved at least one chunk: grading is called
\* once per retrieved chunk
EndedWithChunks == pc \in {"done", "raised"} /\ calls.grade > 0

\* C26 (as stated): in every execution of query that retrieves at least one
\* chunk, answer generation is invoked exactly once and the grounding check
\* is invoked exactly once.
C26_OneGenerationOneGrounding ==
    EndedWithChunks => (calls.generate = 1 /\ calls.ground = 1)

\* C26 (amended): in every execution of query that retrieves at least one
\* chunk, answer generation is invoked exactly once, after all grading calls
\* and after any retry retrieval.  When that call returns, the grounding
\* check is invoked exactly once, after it and on the answer it returned;
\* when it fails, query raises and no grounding check is made.
C26_GenerationThenGrounding ==
    [][/\ calls'.generate <= 1
       /\ calls'.ground <= 1
       /\ calls.generate = 1 =>
            (calls'.grade = calls.grade /\ calls'.retrieve = calls.retrieve)
       /\ calls'.ground > calls.ground =>
            /\ calls.generate = 1
            /\ generated # <<>>
            /\ ground_out'.answer = generated
       /\ (pc' = "done" /\ calls'.grade > 0) =>
            (calls'.generate = 1 /\ calls'.ground = 1)
       /\ pc' = "raised" => (calls'.generate = 1 /\ calls'.ground = 0)]_vars

\* a query with a retry pass has returned: two retrieve calls, four grading
\* calls, then one generation and one grounding call on the generated answer
C26_Witness ==
    /\ pc = "done"
    /\ calls = [retrieve |-> 2, grade |-> 4, generate |-> 1, ground |-> 1]
    /\ generated # <<>>
    /\ ground_out.answer = generated

\* query without its step 3: what it returns when no retry is made
QueryWithoutRetry(q, answers, store) ==
    LET r1 == RetrieveOnce(q, answers[1], store)
    IN IF r1.child_docs = <<>>
       THEN [st |-> "returned", result |-> NoResultsDict(r1)]
       ELSE QueryFromGenerate(grade_relevance(r1.child_docs, answers[2]), r1,
                              SubSeq(answers, Len(answers) - 1, Len(answers)))

\* the query made a retry pass: two retrieve and two grade_relevance calls
RetryMade == Len(ret.answers) = 6

C28_RelevantAtMostRetrieved ==
    Returned => result.num_relevant <= result.num_retrieved

\* the child context of the initial retrieval: the blocks of its fused chunks
InitialChildContext ==
    Join([i \in 1..Len(retrieval.child_docs) |-> ChildBlock(retrieval.child_docs[i])], Sep)

ParentsInCall(call, child) ==
    {p \in 1..Len(call.parents) : call.parents[p].id = child.parent_id}

\* C30: each child produced by create_parent_child_chunks carries the id of
\* exactly one parent produced in the same call for the same document, and
\* after process_all_documents the persisted parent store has an entry for
\* the parent_id of every child: a parent lookup for a child finds a text.
C30_ParentOfEveryChild ==
    pc = "returned" =>
        /\ \A d \in 1..Len(ret.per_doc) :
             \A c \in 1..Len(ret.per_doc[d].children) :
                Cardinality(ParentsInCall(ret.per_doc[d], ret.per_doc[d].children[c])) = 1
        /\ \A c \in 1..Len(ret.all_children) :
             /\ ret.all_children[c].parent_id \in DOMAIN ret.parent_store
             /\ parent_store_get(ret.parent_store, ret.all_children[c].parent_id) # <<>>

\* two documents were chunked, one of them into several parents, and the
\* children of the build belong to at least three parents
C30_Witness ==
    /\ pc = "returned"
    /\ Len(ret.per_doc) = 2
    /\ Len(ret.per_doc[1].parents) >= 2
    /\ ret.per_doc[2].children # <<>>
    /\ Cardinality({ret.all_children[c].parent_id : c \in 1..Len(ret.all_children)}) >= 3

====
